---- MODULE Spec2Model ----
(***************************************************************************)
(* State-machine model of the syntek compiler front-end: the indentation   *)
(* sensitive Tokenizer, the newExpr parselet and the linter rules.         *)
(* Characters are one-character strings, a line is a sequence of           *)
(* characters, positions are <<line, column>> pairs (both 0-based).        *)
(***************************************************************************)
EXTENDS Integers, Sequences, FiniteSets, TLC

VARIABLES source, lines, tokens, comments, diagnostics, indent,
          lineIndex, colIndex, pc,
          ptokens, current, ast, pdiagnostics, ppc,
          tree, stack, visited, counters, reports, wpc

tokVars == <<source, lines, tokens, comments, diagnostics, indent,
             lineIndex, colIndex, pc>>

parVars == <<ptokens, current, ast, pdiagnostics, ppc>>

lintVars == <<tree, stack, visited, counters, reports, wpc>>

vars == <<tokVars, parVars, lintVars>>

(***************************************************************************)
(* Bounds of the model                                                     *)
(***************************************************************************)
MaxLines == 3
MaxIndent == 2
MaxWords == 3
MaxStrFrags == 4
MaxNumFrags == 4
MaxParserFrags == 3
MaxNodes == 3
MaxMembers == 3
MaxArgs == 2

(***************************************************************************)
(* Character classes of the regular expressions                            *)
(***************************************************************************)
Digits == {"0", "1", "2", "3", "4", "5", "6", "7", "8", "9"}

Letters ==
  {"a", "b", "c", "d", "e", "f", "g", "h", "i", "j", "k", "l", "m",
   "n", "o", "p", "q", "r", "s", "t", "u", "v", "w", "x", "y", "z",
   "A", "B", "C", "D", "E", "F", "G", "H", "I", "J", "K", "L", "M",
   "N", "O", "P", "Q", "R", "S", "T", "U", "V", "W", "X", "Y", "Z"}

\* \w
WordChars == Letters \cup Digits \cup {"_"}

\* \s (the members that can occur inside a line)
Space == {" ", "\t", "\r", "\f"}

\* characters the regular expression '.' does not match
LineTerminators == {"\n", "\r"}

(***************************************************************************)
(* Sequence helpers standing for the JavaScript string primitives          *)
(***************************************************************************)
RECURSIVE Str(_)
\* the string made of the characters of a sequence
Str(s) == IF s = <<>> THEN "" ELSE Head(s) \o Str(Tail(s))

\* s.slice(from), from a 0-based index
slice(s, from) == SubSeq(s, from + 1, Len(s))

\* number of consecutive members of class, starting at the 1-based index from
RunOf(s, from, class) ==
  CHOOSE n \in 0..Len(s) :
    /\ \A k \in 0..(n - 1) : from + k <= Len(s) /\ s[from + k] \in class
    /\ (from + n > Len(s) \/ s[from + n] \notin class)

\* does the literal w occur in s at the 1-based index from
StartsWith(s, from, w) ==
  /\ from + Len(w) - 1 <= Len(s)
  /\ \A k \in 1..Len(w) : s[from + k - 1] = w[k]

\* String.prototype.trimLeft
trimLeft(line) == slice(line, RunOf(line, 1, Space))

RECURSIVE SplitFrom(_, _, _)
SplitFrom(s, k, cur) ==
  IF k > Len(s) THEN <<cur>>
  ELSE IF s[k] = "\n" THEN <<cur>> \o SplitFrom(s, k + 1, <<>>)
  ELSE IF s[k] = "\r" /\ k < Len(s) /\ s[k + 1] = "\n"
       THEN <<cur>> \o SplitFrom(s, k + 2, <<>>)
  ELSE SplitFrom(s, k + 1, Append(cur, s[k]))

\* source.split(/\r?\n/)
Split(s) == SplitFrom(s, 1, <<>>)

(***************************************************************************)
(* Grammar: tokens, spans, diagnostics                                     *)
(***************************************************************************)
Span(start, end) == [start |-> start, end |-> end]

Token(type, lexeme, span) == [type |-> type, lexeme |-> lexeme, span |-> span]

Diagnostic(level, src, msg, span) ==
  [level |-> level, source |-> src, msg |-> msg, span |-> span]

\* single character tokens
CHAR_TOKENS ==
  [c \in {"(", ")", ".", ",", ":", "=", "<", ">", "+", "-"} |->
     CASE c = "(" -> "L_PAR"
       [] c = ")" -> "R_PAR"
       [] c = "." -> "DOT"
       [] c = "," -> "COMMA"
       [] c = ":" -> "COLON"
       [] c = "=" -> "EQUAL"
       [] c = "<" -> "LT"
       [] c = ">" -> "GT"
       [] c = "+" -> "PLUS"
       [] c = "-" -> "MINUS"]

\* reserved words
WORD_TOKENS ==
  [w \in {"is", "not", "if", "for", "in", "function", "return", "class",
          "switch", "case", "break", "continue", "fallthrough", "new",
          "var", "true", "false"} |->
     CASE w = "is" -> "IS"
       [] w = "not" -> "NOT"
       [] w = "if" -> "IF"
       [] w = "for" -> "FOR"
       [] w = "in" -> "IN"
       [] w = "function" -> "FUNCTION"
       [] w = "return" -> "RETURN"
       [] w = "class" -> "CLASS"
       [] w = "switch" -> "SWITCH"
       [] w = "case" -> "CASE"
       [] w = "break" -> "BREAK"
       [] w = "continue" -> "CONTINUE"
       [] w = "fallthrough" -> "FALLTHROUGH"
       [] w = "new" -> "NEW"
       [] w = "var" -> "VAR"
       [] w = "true" -> "TRUE"
       [] w = "false" -> "FALSE"]

(***************************************************************************)
(* Tokenizer: the matchers.  Each returns the number of characters to skip *)
(* (toAdd) and what it pushed onto tokens, comments and diagnostics.       *)
(***************************************************************************)
Pushed(toAdd, toks, coms, diags) ==
  [toAdd |-> toAdd, tokens |-> toks, comments |-> coms, diagnostics |-> diags]

\* error that reports and skips no character
error_NoSkip(msg, lexeme, line, col) ==
  Pushed(0, <<>>, <<>>,
         <<Diagnostic("ERROR", "tokenizer", msg,
                      Span(<<line, col>>, <<line, col + Len(lexeme)>>))>>)

\* Tokenizer.error
error(msg, lexeme, line, col) ==
  Pushed(Len(lexeme), <<>>, <<>>,
         <<Diagnostic("ERROR", "tokenizer", msg,
                      Span(<<line, col>>, <<line, col + Len(lexeme)>>))>>)

\* Tokenizer.getIndent: /^\t+/
getIndent(line) == RunOf(line, 1, {"\t"})

\* length of the match of /^\d(?:\d|_)*(?:\.\d(?:\d|_)*)?/, 0 when none
NumberLen(chars) ==
  IF chars = <<>> \/ chars[1] \notin Digits THEN 0
  ELSE LET a == 1 + RunOf(chars, 2, Digits \cup {"_"})
       IN IF a + 2 <= Len(chars) /\ chars[a + 1] = "." /\ chars[a + 2] \in Digits
          THEN a + 2 + RunOf(chars, a + 3, Digits \cup {"_"})
          ELSE a

\* Tokenizer.matchNumber
matchNumber(chars, line, col) ==
  LET n == NumberLen(chars)
  IN IF n > 0
     THEN Pushed(n, <<Token("NUMBER", Str(SubSeq(chars, 1, n)),
                            Span(<<line, col>>, <<line, col + n>>))>>, <<>>, <<>>)
     ELSE Pushed(0, <<>>, <<>>, <<>>)

RECURSIVE StringBody(_, _)
\* the body and closing quote of /^'(?:[^'\\]|\\.)*'/ from the 1-based index k:
\* the length of the whole match, 0 when there is none
StringBody(chars, k) ==
  IF k > Len(chars) THEN 0
  ELSE IF chars[k] = "'" THEN k
  ELSE IF chars[k] = "\\"
       THEN IF k + 1 <= Len(chars) /\ chars[k + 1] \notin LineTerminators
            THEN StringBody(chars, k + 2)
            ELSE 0
  ELSE StringBody(chars, k + 1)

StringLen(chars) ==
  IF chars = <<>> \/ chars[1] # "'" THEN 0 ELSE StringBody(chars, 2)

\* matchString reporting an unterminated string and skipping the line
matchString_SkipLine(chars, line, col) ==
  LET n == StringLen(chars)
  IN IF n > 0
     THEN Pushed(n, <<Token("STRING", Str(SubSeq(chars, 1, n)),
                            Span(<<line, col>>, <<line, col + n>>))>>, <<>>, <<>>)
     ELSE error("Unexpected token '''", chars, line, col)

\* Tokenizer.matchString
matchString(chars, line, col) ==
  LET n == StringLen(chars)
  IN IF n > 0
     THEN Pushed(n, <<Token("STRING", Str(SubSeq(chars, 1, n)),
                            Span(<<line, col>>, <<line, col + n>>))>>, <<>>, <<>>)
     ELSE Pushed(0, <<>>, <<>>, <<>>)

\* matchComment pushing the comment onto tokens as well
matchComment_AsToken(chars, line, col) ==
  Pushed(Len(chars),
         <<Token("COMMENT", Str(chars),
                 Span(<<line, col>>, <<line, col + Len(chars)>>))>>,
         <<Token("COMMENT", Str(chars),
                 Span(<<line, col>>, <<line, col + Len(chars)>>))>>, <<>>)

\* Tokenizer.matchComment
matchComment(chars, line, col) ==
  Pushed(Len(chars), <<>>,
         <<Token("COMMENT", Str(chars),
                 Span(<<line, col>>, <<line, col + Len(chars)>>))>>, <<>>)

\* length of the match of /^[a-z_]\w*/i, 0 when none
WordLen(chars) ==
  IF chars = <<>> \/ chars[1] \notin (Letters \cup {"_"}) THEN 0
  ELSE 1 + RunOf(chars, 2, WordChars)

\* the match with comparisonOperatorMatch[1] taken as the operator, which
\* for 'less than' and 'greater than' is no case of the switch
ComparisonOperatorMatch_First(chars) ==
  LET none == [len |-> 0, operator |-> "none"]
      ws1 == RunOf(chars, 3, Space)
      p == 3 + ws1
      second == IF StartsWith(chars, p, <<"l", "e", "s", "s">>) THEN "less"
                ELSE IF StartsWith(chars, p, <<"g", "r", "e", "a", "t", "e", "r">>)
                     THEN "greater" ELSE "none"
      q == p + (IF second = "less" THEN 4 ELSE 7)
      ws2 == RunOf(chars, q, Space)
  IN IF ~StartsWith(chars, 1, <<"i", "s">>) \/ ws1 = 0 THEN none
     ELSE IF StartsWith(chars, p, <<"n", "o", "t">>)
          THEN [len |-> p + 2, operator |-> "not"]
     ELSE IF second # "none" /\ ws2 > 0 /\ StartsWith(chars, q + ws2, <<"t", "h", "a", "n">>)
          THEN [len |-> q + ws2 + 3, operator |-> "none"]
     ELSE none

\* the match of /^is\s+(not|(?:(less|greater)\s+than))/ :
\* its length and comparisonOperatorMatch[2] || comparisonOperatorMatch[1]
ComparisonOperatorMatch(chars) ==
  LET none == [len |-> 0, operator |-> "none"]
      ws1 == RunOf(chars, 3, Space)
      p == 3 + ws1
      second == IF StartsWith(chars, p, <<"l", "e", "s", "s">>) THEN "less"
                ELSE IF StartsWith(chars, p, <<"g", "r", "e", "a", "t", "e", "r">>)
                     THEN "greater" ELSE "none"
      q == p + (IF second = "less" THEN 4 ELSE 7)
      ws2 == RunOf(chars, q, Space)
  IN IF ~StartsWith(chars, 1, <<"i", "s">>) \/ ws1 = 0 THEN none
     ELSE IF StartsWith(chars, p, <<"n", "o", "t">>)
          THEN [len |-> p + 2, operator |-> "not"]
     ELSE IF second # "none" /\ ws2 > 0 /\ StartsWith(chars, q + ws2, <<"t", "h", "a", "n">>)
          THEN [len |-> q + ws2 + 3, operator |-> second]
     ELSE none

\* matchWord with the guard taken on the start of the word, not on the
\* whole word
matchWord_Prefix(wordMatch, chars, line, col) ==
  LET word == Str(wordMatch)
      type0 == IF word \in DOMAIN WORD_TOKENS THEN WORD_TOKENS[word] ELSE "IDENTIFIER"
      cmp == IF word = "is" THEN ComparisonOperatorMatch(chars)
             ELSE [len |-> 0, operator |-> "none"]
      lexeme == IF cmp.len > 0 THEN SubSeq(chars, 1, cmp.len) ELSE wordMatch
      type == CASE cmp.operator = "not" -> "IS_NOT"
                [] cmp.operator = "less" -> "IS_LESS_THAN"
                [] cmp.operator = "greater" -> "IS_GREATER_THAN"
                [] OTHER -> type0
  IN IF \/ Len(wordMatch) >= 4 /\ Str(SubSeq(wordMatch, 1, 4)) \in {"less", "than"}
        \/ Len(wordMatch) >= 7 /\ Str(SubSeq(wordMatch, 1, 7)) = "greater"
     THEN error("'" \o word \o "' must come after 'is'. Make sure it's on the same line",
                wordMatch, line, col)
     ELSE Pushed(Len(lexeme),
                 <<Token(type, Str(lexeme),
                         Span(<<line, col>>, <<line, col + Len(lexeme)>>))>>,
                 <<>>, <<>>)

\* Tokenizer.matchWord
matchWord(wordMatch, chars, line, col) ==
  LET word == Str(wordMatch)
      type0 == IF word \in DOMAIN WORD_TOKENS THEN WORD_TOKENS[word] ELSE "IDENTIFIER"
      cmp == IF word = "is" THEN ComparisonOperatorMatch(chars)
             ELSE [len |-> 0, operator |-> "none"]
      lexeme == IF cmp.len > 0 THEN SubSeq(chars, 1, cmp.len) ELSE wordMatch
      type == CASE cmp.operator = "not" -> "IS_NOT"
                [] cmp.operator = "less" -> "IS_LESS_THAN"
                [] cmp.operator = "greater" -> "IS_GREATER_THAN"
                [] OTHER -> type0
  IN IF word = "less" \/ word = "greater" \/ word = "than"
     THEN error(IF word = "than"
                THEN "'than' must come after 'is less' or 'is greater'. Make sure it's on the same line"
                ELSE "'" \o word \o "' must come after 'is'. Make sure it's on the same line",
                wordMatch, line, col)
     ELSE Pushed(Len(lexeme),
                 <<Token(type, Str(lexeme),
                         Span(<<line, col>>, <<line, col + Len(lexeme)>>))>>,
                 <<>>, <<>>)

\* addIndentTokens pushing a single INDENT whatever the jump
addIndentTokens_Single(line, newIndent, oldIndent) ==
  IF newIndent > oldIndent
  THEN <<Token("INDENT", "\t", Span(<<line, 0>>, <<line, newIndent - oldIndent>>))>>
  ELSE IF newIndent < oldIndent
  THEN [k \in 1..(oldIndent - newIndent) |->
          Token("OUTDENT", "", Span(<<line, 0>>, <<line, newIndent>>))]
  ELSE <<>>

\* addIndentTokens with the OUTDENT span as wide as the jump, like INDENT
addIndentTokens_OutdentWidth(line, newIndent, oldIndent) ==
  IF newIndent > oldIndent
  THEN [k \in 1..(newIndent - oldIndent) |->
          Token("INDENT", "\t", Span(<<line, 0>>, <<line, newIndent - oldIndent>>))]
  ELSE IF newIndent < oldIndent
  THEN [k \in 1..(oldIndent - newIndent) |->
          Token("OUTDENT", "", Span(<<line, 0>>, <<line, oldIndent - newIndent>>))]
  ELSE <<>>

\* addIndentTokens pushing one OUTDENT whatever the jump back
addIndentTokens_OneOutdent(line, newIndent, oldIndent) ==
  IF newIndent > oldIndent
  THEN [k \in 1..(newIndent - oldIndent) |->
          Token("INDENT", "\t", Span(<<line, 0>>, <<line, newIndent - oldIndent>>))]
  ELSE IF newIndent < oldIndent
  THEN <<Token("OUTDENT", "", Span(<<line, 0>>, <<line, newIndent>>))>>
  ELSE <<>>

\* Tokenizer.addIndentTokens: the tokens it pushes
addIndentTokens(line, newIndent, oldIndent) ==
  IF newIndent > oldIndent
  THEN [k \in 1..(newIndent - oldIndent) |->
          Token("INDENT", "\t", Span(<<line, 0>>, <<line, newIndent - oldIndent>>))]
  ELSE IF newIndent < oldIndent
  THEN [k \in 1..(oldIndent - newIndent) |->
          Token("OUTDENT", "", Span(<<line, 0>>, <<line, newIndent>>))]
  ELSE <<>>

\* one iteration of the column loop of scanLine, for a character that is
\* not a single character token
scanOther(line, lineNo, col) ==
  LET char == line[col + 1]
      remainingChars == slice(line, col)
      wordMatch == SubSeq(remainingChars, 1, WordLen(remainingChars))
      r == IF char \in Digits THEN matchNumber(remainingChars, lineNo, col)
           ELSE IF char = "'" THEN matchString(remainingChars, lineNo, col)
           ELSE IF char = "#" THEN matchComment(remainingChars, lineNo, col)
           ELSE IF wordMatch # <<>>
                THEN matchWord(wordMatch, remainingChars, lineNo, col)
           ELSE Pushed(0, <<>>, <<>>, <<>>)
  IN IF r.toAdd > 0 THEN r
     ELSE error("Unexpected token '" \o char \o "'", <<char>>, lineNo, col)

(***************************************************************************)
(* The sources the tokenizer is run on                                     *)
(***************************************************************************)
RECURSIVE Flatten(_)
\* concatenation of a sequence of sequences
Flatten(ss) == IF ss = <<>> THEN <<>> ELSE Head(ss) \o Flatten(Tail(ss))

RECURSIVE JoinLines(_)
\* the source text whose lines are ls
JoinLines(ls) ==
  IF Len(ls) = 1 THEN ls[1] ELSE ls[1] \o <<"\n">> \o JoinLines(Tail(ls))

Tabs(k) == [j \in 1..k |-> "\t"]

\* blank, code and comment line bodies
Bodies == {<<>>, <<"a">>, <<"#">>}

StructLines == {Tabs(k) \o b : k \in 0..MaxIndent, b \in Bodies}

\* sources of up to MaxLines lines with up to MaxIndent leading tabs
StructSources ==
  {JoinLines(ls) : ls \in UNION {[1..n -> StructLines] : n \in 1..MaxLines}}

Words ==
  {<<"i", "s">>, <<"n", "o", "t">>, <<"l", "e", "s", "s">>,
   <<"g", "r", "e", "a", "t", "e", "r">>, <<"t", "h", "a", "n">>, <<"x">>}

Seps == {<<>>, <<" ">>}

\* single lines of up to MaxWords words, glued or separated by a space
WordSources ==
  UNION {{Flatten([k \in 1..(2 * n - 1) |->
                     IF k % 2 = 1 THEN ws[(k + 1) \div 2] ELSE ss[k \div 2]]) :
            ws \in [1..n -> Words], ss \in [1..(n - 1) -> Seps]} :
         n \in 1..MaxWords}

StrFrags == {<<"'">>, <<"#">>, <<"\\">>, <<"x">>, <<" ">>, <<"@">>}

\* single lines of quotes, escapes, comment marks and unexpected characters
StrSources ==
  UNION {{Flatten(fs) : fs \in [1..n -> StrFrags]} : n \in 1..MaxStrFrags}

NumFrags == {<<"1">>, <<".">>, <<"_">>, <<"x">>}

\* single lines of digits, dots and digit separators
NumSources ==
  UNION {{Flatten(fs) : fs \in [1..n -> NumFrags]} : n \in 1..MaxNumFrags}

\* sources of the rule tests and of the specification's scenarios
ExtraSources ==
  {<<"f", "u", "n", "c", "t", "i", "o", "n", " ", "x", "(", ")", " ", "\n",
     "\t", " ", "r", "e", "t", "u", "r", "n">>,
   <<"i", "f", " ", "x", " ", "i", "s", " ", "l", "e", "s", "s", " ",
     "t", "h", "a", "n", " ", "y">>,
   <<"x", " ", "i", "s", " ", "\t", "g", "r", "e", "a", "t", "e", "r", " ", " ",
     "t", "h", "a", "n", " ", "1", "\r", "\n", "\t", "y", " ", "i", "s", " ", " ",
     "n", "o", "t", " ", "'", "#", "'", " ", "#", "c">>,
   <<"\t", "\t", "a", "\n", " ", "\t", "#", " ", "c", "\n", "\n", "\t", "b", " ">>,
   <<"'", "a", "\n", "\t", "b">>,
   <<"i", "f", " ", "x", " ">>}

Sources ==
  StructSources \cup WordSources \cup StrSources \cup NumSources \cup ExtraSources

(***************************************************************************)
(* Tokenizer: the state machine                                            *)
(***************************************************************************)
\* new Tokenizer(source)
TokInit ==
  /\ source \in Sources
  /\ lines = Split(source)
  /\ tokens = <<>>
  /\ comments = <<>>
  /\ diagnostics = <<>>
  /\ indent = 0
  /\ lineIndex = 0
  /\ colIndex = 0
  /\ pc = "for"

\* scanLine on a line that is empty or whitespace only
ScanBlankLine ==
  /\ pc = "for"
  /\ lineIndex < Len(lines)
  /\ trimLeft(lines[lineIndex + 1]) = <<>>
  /\ lineIndex' = lineIndex + 1
  /\ UNCHANGED <<source, lines, tokens, comments, diagnostics, indent, colIndex, pc>>

\* scanLine on a comment line that takes the line's tabs as the indent
ScanCommentLine_SetsIndent ==
  /\ pc = "for"
  /\ lineIndex < Len(lines)
  /\ LET line == lines[lineIndex + 1]
         trimmed == trimLeft(line)
     IN /\ trimmed # <<>>
        /\ trimmed[1] = "#"
        /\ comments' = Append(comments,
             Token("COMMENT", Str(trimmed),
                   Span(<<lineIndex, Len(line) - Len(trimmed)>>,
                        <<lineIndex, Len(line)>>)))
        /\ indent' = getIndent(line)
  /\ lineIndex' = lineIndex + 1
  /\ UNCHANGED <<source, lines, tokens, diagnostics, colIndex, pc>>

\* scanLine on a comment line that goes on to push the line's NEWLINE
ScanCommentLine_WithNewline ==
  /\ pc = "for"
  /\ lineIndex < Len(lines)
  /\ LET line == lines[lineIndex + 1]
         trimmed == trimLeft(line)
     IN /\ trimmed # <<>>
        /\ trimmed[1] = "#"
        /\ comments' = Append(comments,
             Token("COMMENT", Str(trimmed),
                   Span(<<lineIndex, Len(line) - Len(trimmed)>>,
                        <<lineIndex, Len(line)>>)))
        /\ tokens' = Append(tokens,
             Token("NEWLINE", "\n",
                   Span(<<lineIndex, Len(line)>>, <<lineIndex, Len(line) + 1>>)))
  /\ lineIndex' = lineIndex + 1
  /\ UNCHANGED <<source, lines, diagnostics, indent, colIndex, pc>>

\* scanLine on a line whose first non-whitespace character is '#'
ScanCommentLine ==
  /\ pc = "for"
  /\ lineIndex < Len(lines)
  /\ LET line == lines[lineIndex + 1]
         trimmed == trimLeft(line)
     IN /\ trimmed # <<>>
        /\ trimmed[1] = "#"
        /\ comments' = Append(comments,
             Token("COMMENT", Str(trimmed),
                   Span(<<lineIndex, Len(line) - Len(trimmed)>>,
                        <<lineIndex, Len(line)>>)))
  /\ lineIndex' = lineIndex + 1
  /\ UNCHANGED <<source, lines, tokens, diagnostics, indent, colIndex, pc>>

\* scanLine on any other line, up to the start of the column loop
ScanLineBegin ==
  /\ pc = "for"
  /\ lineIndex < Len(lines)
  /\ LET line == lines[lineIndex + 1]
         trimmed == trimLeft(line)
     IN /\ trimmed # <<>>
        /\ trimmed[1] # "#"
        /\ tokens' = tokens \o addIndentTokens(lineIndex, getIndent(line), indent)
        /\ indent' = getIndent(line)
        /\ colIndex' = getIndent(line)
  /\ pc' = "while"
  /\ UNCHANGED <<source, lines, comments, diagnostics, lineIndex>>

\* one iteration of the column loop of scanLine
ScanChar ==
  /\ pc = "while"
  /\ colIndex < Len(lines[lineIndex + 1])
  /\ LET line == lines[lineIndex + 1]
         char == line[colIndex + 1]
         r == IF char \in DOMAIN CHAR_TOKENS
              THEN Pushed(1, <<Token(CHAR_TOKENS[char], char,
                                     Span(<<lineIndex, colIndex>>,
                                          <<lineIndex, colIndex + 1>>))>>,
                          <<>>, <<>>)
              ELSE scanOther(line, lineIndex, colIndex)
     IN /\ tokens' = tokens \o r.tokens
        /\ comments' = comments \o r.comments
        /\ diagnostics' = diagnostics \o r.diagnostics
        /\ colIndex' = colIndex + r.toAdd
  /\ UNCHANGED <<source, lines, indent, lineIndex, pc>>

\* the end of scanLine with a NEWLINE of empty lexeme
ScanLineEnd_EmptyLexeme ==
  /\ pc = "while"
  /\ colIndex >= Len(lines[lineIndex + 1])
  /\ tokens' = Append(tokens,
       Token("NEWLINE", "",
             Span(<<lineIndex, Len(lines[lineIndex + 1])>>,
                  <<lineIndex, Len(lines[lineIndex + 1]) + 1>>)))
  /\ lineIndex' = lineIndex + 1
  /\ colIndex' = 0
  /\ pc' = "for"
  /\ UNCHANGED <<source, lines, comments, diagnostics, indent>>

\* the end of scanLine: every line ends with a newline
ScanLineEnd ==
  /\ pc = "while"
  /\ colIndex >= Len(lines[lineIndex + 1])
  /\ tokens' = Append(tokens,
       Token("NEWLINE", "\n",
             Span(<<lineIndex, Len(lines[lineIndex + 1])>>,
                  <<lineIndex, Len(lines[lineIndex + 1]) + 1>>)))
  /\ lineIndex' = lineIndex + 1
  /\ colIndex' = 0
  /\ pc' = "for"
  /\ UNCHANGED <<source, lines, comments, diagnostics, indent>>

\* tokenize with the EOF token pushed before the trailing outdent tokens
tokenizeEnd_EofFirst(toks, lns, ind) ==
  toks
  \o <<Token("EOF", "",
             Span(<<Len(lns) - 1, Len(lns[Len(lns)])>>,
                  <<Len(lns) - 1, Len(lns[Len(lns)]) + 1>>))>>
  \o [k \in 1..ind |->
        Token("OUTDENT", "", Span(<<Len(lns) - 1, 0>>, <<Len(lns) - 1, ind>>))]

\* tokenize with the trailing outdent tokens put on the last code line,
\* not on the last line
tokenizeEnd_LastCodeLine(toks, lns, ind) ==
  toks
  \o [k \in 1..ind |->
        Token("OUTDENT", "",
              Span(<<toks[Len(toks)].span.start[1], 0>>,
                   <<toks[Len(toks)].span.start[1], ind>>))]
  \o <<Token("EOF", "",
             Span(<<Len(lns) - 1, Len(lns[Len(lns)])>>,
                  <<Len(lns) - 1, Len(lns[Len(lns)]) + 1>>))>>

\* the trailing outdent tokens and the EOF token of tokenize
tokenizeEnd(toks, lns, ind) ==
  toks
  \o [k \in 1..ind |->
        Token("OUTDENT", "", Span(<<Len(lns) - 1, 0>>, <<Len(lns) - 1, ind>>))]
  \o <<Token("EOF", "",
             Span(<<Len(lns) - 1, Len(lns[Len(lns)])>>,
                  <<Len(lns) - 1, Len(lns[Len(lns)]) + 1>>))>>

\* tokenize, after the last line is scanned
TokenizeEnd ==
  /\ pc = "for"
  /\ lineIndex = Len(lines)
  /\ tokens' = tokenizeEnd(tokens, lines, indent)
  /\ pc' = "done"
  /\ UNCHANGED <<source, lines, comments, diagnostics, indent, lineIndex, colIndex>>

TokNext ==
  \/ ScanBlankLine
  \/ ScanCommentLine
  \/ ScanLineBegin
  \/ ScanChar
  \/ ScanLineEnd
  \/ TokenizeEnd


(***************************************************************************)
(* Tokenizer: tokenize as a function of the source, to compare two runs    *)
(***************************************************************************)
\* one iteration of the column loop of scanLine: what it pushes and skips
scanColumn(line, lineNo, col) ==
  IF line[col + 1] \in DOMAIN CHAR_TOKENS
  THEN Pushed(1, <<Token(CHAR_TOKENS[line[col + 1]], line[col + 1],
                         Span(<<lineNo, col>>, <<lineNo, col + 1>>))>>,
              <<>>, <<>>)
  ELSE scanOther(line, lineNo, col)

RECURSIVE scanColumns(_, _, _)
\* the column loop of scanLine from column col on: all it pushes
scanColumns(line, lineNo, col) ==
  IF col >= Len(line) THEN Pushed(0, <<>>, <<>>, <<>>)
  ELSE LET r == scanColumn(line, lineNo, col)
           rest == scanColumns(line, lineNo, col + r.toAdd)
       IN Pushed(r.toAdd + rest.toAdd, r.tokens \o rest.tokens,
                 r.comments \o rest.comments, r.diagnostics \o rest.diagnostics)

\* scanLine: the tokenizer fields t after the scan of line lineNo
scanLine(t, lns, lineNo) ==
  LET line == lns[lineNo + 1]
      trimmed == trimLeft(line)
      r == scanColumns(line, lineNo, getIndent(line))
  IN IF trimmed = <<>> THEN t
     ELSE IF trimmed[1] = "#"
     THEN [t EXCEPT !.comments =
             Append(@, Token("COMMENT", Str(trimmed),
                             Span(<<lineNo, Len(line) - Len(trimmed)>>,
                                  <<lineNo, Len(line)>>)))]
     ELSE [tokens |-> t.tokens \o addIndentTokens(lineNo, getIndent(line), t.indent)
                      \o r.tokens
                      \o <<Token("NEWLINE", "\n",
                                 Span(<<lineNo, Len(line)>>, <<lineNo, Len(line) + 1>>))>>,
           comments |-> t.comments \o r.comments,
           diagnostics |-> t.diagnostics \o r.diagnostics,
           indent |-> getIndent(line)]

RECURSIVE scanLines(_, _, _)
\* the for loop of tokenize from line lineNo on
scanLines(t, lns, lineNo) ==
  IF lineNo >= Len(lns) THEN t
  ELSE scanLines(scanLine(t, lns, lineNo), lns, lineNo + 1)

\* new Tokenizer(src).tokenize()
tokenize(src) ==
  LET t == scanLines([tokens |-> <<>>, comments |-> <<>>, diagnostics |-> <<>>,
                      indent |-> 0], Split(src), 0)
  IN [tokens |-> tokenizeEnd(t.tokens, Split(src), t.indent),
      comments |-> t.comments,
      diagnostics |-> t.diagnostics]

(***************************************************************************)
(* Parser: the cursor primitives and the Pratt engine that newExpr calls.  *)
(* A parse step returns whether it succeeded, the node or nodes it built,  *)
(* the cursor after it and the diagnostics it reported; a failed consume   *)
(* or a missing prefix rule abandons the statement being parsed.           *)
(***************************************************************************)
\* Precedence: assignment, the lowest level
OP1 == 1

\* Precedence: call, index and member access
OP11 == 11

NoNode == [type |-> "NONE"]

Ok(node, pos) == [ok |-> TRUE, node |-> node, pos |-> pos, diags |-> <<>>]

\* a diagnostic at the offending token, with an optional info annotation
Fail(toks, pos, msg, info) ==
  [ok |-> FALSE, node |-> NoNode, pos |-> pos,
   diags |-> <<[level |-> "ERROR", source |-> "parser", msg |-> msg,
                span |-> toks[pos].span, info |-> info]>>]

\* the type of the token at pos, EOF past the end
TypeAt(toks, pos) == IF pos <= Len(toks) THEN toks[pos].type ELSE "EOF"

\* Parser.ignoreNewline: the cursor after the run of NEWLINEs at pos
ignoreNewline(toks, pos) ==
  pos + (CHOOSE n \in 0..(Len(toks) - pos) :
           /\ \A k \in 0..(n - 1) : toks[pos + k].type = "NEWLINE"
           /\ toks[pos + n].type # "NEWLINE")

\* precedence of the infix rule of a token type
InfixPrecedence ==
  [t \in {"L_PAR", "L_SQB", "DOT"} |-> OP11]

Identifier(token) == [type |-> "IDENTIFIER", lexeme |-> token.lexeme, span |-> token.span]

Literal(token) == [type |-> "LITERAL", value |-> token, span |-> token.span]

\* memberExpr: '.' after an expression expects an IDENTIFIER
memberExpr(toks, pos, left, infix) ==
  IF toks[pos].type = "IDENTIFIER"
  THEN Ok([type |-> "MEMBER_EXPR", object |-> left, property |-> toks[pos],
           span |-> Span(left.span.start, toks[pos].span.end)], pos + 1)
  ELSE Fail(toks, pos, "Expected an identifier after '.'", <<>>)

RECURSIVE parsePrecedence(_, _, _, _), infixLoop(_, _, _, _),
          matchExpressionList(_, _, _), matchTypeDecl(_, _),
          matchGenericArgs(_, _), newExpr(_, _, _)

\* the end of the longest run ('.' IDENT)* that starts at pos
RECURSIVE dottedEnd(_, _)
dottedEnd(toks, pos) ==
  IF toks[pos].type = "DOT" /\ toks[pos + 1].type = "IDENTIFIER"
  THEN dottedEnd(toks, pos + 2)
  ELSE pos

\* matchTypeDecl: the type built from its first token and its generic
\* arguments g
typeDecl(toks, pos, g) ==
  IF g.ok
  THEN Ok([type |-> "TYPE", generics |-> g.node,
           span |-> Span(toks[pos].span.start, toks[g.pos - 1].span.end)], g.pos)
  ELSE g

\* matchTypeDecl: IDENT ('.' IDENT)* ('<' TypeList '>')?
matchTypeDecl(toks, pos) ==
  IF toks[pos].type # "IDENTIFIER"
  THEN Fail(toks, pos, "Expected a type", <<>>)
  ELSE IF toks[dottedEnd(toks, pos + 1)].type = "DOT"
  THEN Fail(toks, dottedEnd(toks, pos + 1) + 1, "Expected an identifier after '.'", <<>>)
  ELSE IF toks[dottedEnd(toks, pos + 1)].type = "LT"
  THEN typeDecl(toks, pos, matchGenericArgs(toks, dottedEnd(toks, pos + 1) + 1))
  ELSE typeDecl(toks, pos, [ok |-> TRUE, node |-> <<>>,
                            pos |-> dottedEnd(toks, pos + 1), diags |-> <<>>])

\* a list: its first element followed by the rest
listCons(first, rest) ==
  IF rest.ok
  THEN [ok |-> TRUE, node |-> <<first.node>> \o rest.node, pos |-> rest.pos,
        diags |-> <<>>]
  ELSE rest

\* the end of a list after its last element t: the closing token
listEnd(toks, t, closing, msg) ==
  IF ~t.ok THEN t
  ELSE IF toks[ignoreNewline(toks, t.pos)].type = closing
  THEN [ok |-> TRUE, node |-> <<t.node>>, pos |-> ignoreNewline(toks, t.pos) + 1,
        diags |-> <<>>]
  ELSE Fail(toks, ignoreNewline(toks, t.pos), msg, <<>>)

\* matchGenericArgs: a comma separated list of types up to '>', after '<'
matchGenericArgs(toks, pos) ==
  LET t == matchTypeDecl(toks, ignoreNewline(toks, pos))
  IN IF t.ok /\ toks[ignoreNewline(toks, t.pos)].type = "COMMA"
     THEN listCons(t, matchGenericArgs(toks, ignoreNewline(toks, t.pos) + 1))
     ELSE listEnd(toks, t, "GT", "Expected '>'")

\* matchExpressionList: the list from its first expression e on
expressionListFrom(toks, e, closing) ==
  IF e.ok /\ toks[ignoreNewline(toks, e.pos)].type = "COMMA"
  THEN listCons(e, matchExpressionList(toks, ignoreNewline(toks, e.pos) + 1, closing))
  ELSE listEnd(toks, e, closing, "Expected the end of the list")

\* matchExpressionList: comma separated expressions up to the closing token
matchExpressionList(toks, pos, closing) ==
  IF toks[ignoreNewline(toks, pos)].type = closing
  THEN [ok |-> TRUE, node |-> <<>>, pos |-> ignoreNewline(toks, pos) + 1, diags |-> <<>>]
  ELSE expressionListFrom(toks,
                          parsePrecedence(toks, ignoreNewline(toks, pos), OP1,
                                          "Expected an expression"),
                          closing)

\* an expression between brackets: inner is the expression, closing the
\* bracket expected after it
bracketed(toks, inner, closing, msg) ==
  IF ~inner.ok THEN inner
  ELSE IF toks[ignoreNewline(toks, inner.pos)].type = closing
  THEN Ok([expression |-> inner.node, closing |-> toks[ignoreNewline(toks, inner.pos)]],
          ignoreNewline(toks, inner.pos) + 1)
  ELSE Fail(toks, ignoreNewline(toks, inner.pos), msg, <<>>)

\* wrappedExpr: '(' expression ')'
wrappedExpr(prefix, b) ==
  IF b.ok
  THEN Ok([type |-> "WRAPPED_EXPR", expression |-> b.node.expression,
           span |-> Span(prefix.span.start, b.node.closing.span.end)], b.pos)
  ELSE b

\* indexExpr: left '[' expression ']'
indexExpr(left, b) ==
  IF b.ok
  THEN Ok([type |-> "INDEX_EXPR", object |-> left, index |-> b.node.expression,
           span |-> Span(left.span.start, b.node.closing.span.end)], b.pos)
  ELSE b

\* callExpr: the call of left with the parameter list params
callExpr(toks, left, params) ==
  IF params.ok
  THEN Ok([type |-> "CALL_EXPR", object |-> left, params |-> params.node,
           span |-> Span(left.span.start, toks[params.pos - 1].span.end)], params.pos)
  ELSE params

\* Parser.parsePrecedence: the infix loop on the prefix form left
infixFrom(toks, left, level) ==
  IF left.ok THEN infixLoop(toks, left.node, left.pos, level) ELSE left

\* Parser.parsePrecedence: a prefix form, then the infix forms whose
\* precedence is at least level
parsePrecedence(toks, pos, level, msg) ==
  CASE toks[pos].type = "IDENTIFIER" ->
         infixFrom(toks, Ok(Identifier(toks[pos]), pos + 1), level)
    [] toks[pos].type \in {"NUMBER", "STRING", "TRUE", "FALSE"} ->
         infixFrom(toks, Ok(Literal(toks[pos]), pos + 1), level)
    [] toks[pos].type = "NEW" ->
         infixFrom(toks, newExpr(toks, pos + 1, toks[pos]), level)
    [] toks[pos].type = "L_PAR" ->
         infixFrom(toks,
                   wrappedExpr(toks[pos],
                               bracketed(toks,
                                         parsePrecedence(toks, ignoreNewline(toks, pos + 1),
                                                         OP1,
                                                         "Expected an expression after '('"),
                                         "R_PAR", "Expected ')'")),
                   level)
    [] OTHER -> Fail(toks, pos, msg, <<>>)

\* the infix loop of parsePrecedence
infixLoop(toks, left, pos, level) ==
  IF ~(toks[pos].type \in DOMAIN InfixPrecedence
       /\ InfixPrecedence[toks[pos].type] >= level)
  THEN Ok(left, pos)
  ELSE CASE toks[pos].type = "L_PAR" ->
              infixFrom(toks,
                        callExpr(toks, left, matchExpressionList(toks, pos + 1, "R_PAR")),
                        level)
         [] toks[pos].type = "L_SQB" ->
              infixFrom(toks,
                        indexExpr(left,
                                  bracketed(toks,
                                            parsePrecedence(toks,
                                                            ignoreNewline(toks, pos + 1),
                                                            OP1,
                                                            "Expected an expression after '['"),
                                            "R_SQB", "Expected ']'")),
                        level)
         [] OTHER ->
              infixFrom(toks, memberExpr(toks, pos + 1, left, toks[pos]), level)

RECURSIVE memberLoop(_, _, _)
\* while (parser.match(LexicalToken.DOT)) object = memberExpr(...)
memberLoop(toks, pos, object) ==
  IF toks[pos].type # "DOT" THEN Ok(object, pos)
  ELSE IF memberExpr(toks, pos + 1, object, toks[pos]).ok
  THEN memberLoop(toks, memberExpr(toks, pos + 1, object, toks[pos]).pos,
                  memberExpr(toks, pos + 1, object, toks[pos]).node)
  ELSE memberExpr(toks, pos + 1, object, toks[pos])

\* newExpr: the error of parsePrecedence with the info of newExpr added
newExprInfo(first, prefix) ==
  [first EXCEPT !.diags =
     <<[first.diags[1] EXCEPT
          !.info = IF first.diags[1].msg = "Expected an expression after 'new'"
                   THEN <<[msg |-> "Add an expression after this new",
                           span |-> prefix.span]>>
                   ELSE @]>>]

\* newExpr: from the consume of '(' on, with the object and the generic
\* arguments parsed
newExprCall(toks, prefix, object, generic) ==
  IF ~generic.ok THEN generic
  ELSE IF toks[generic.pos].type # "L_PAR"
  THEN Fail(toks, generic.pos, "Expected '(' after the class",
            <<[msg |-> "Add a '(' after this class", span |-> object.span]>>)
  ELSE LET params == matchExpressionList(toks, generic.pos + 1, "R_PAR")
       IN IF ~params.ok THEN params
          ELSE Ok([type |-> "NEW_EXPR", object |-> object, genericArgs |-> generic.node,
                   params |-> params.node,
                   span |-> Span(prefix.span.start, toks[params.pos - 1].span.end)],
                  params.pos)

\* newExpr: the generic arguments, each result moved past the NEWLINEs
\* that follow it
newExprGeneric(toks, p3) ==
  IF toks[p3].type = "LT"
  THEN LET g == matchGenericArgs(toks, p3 + 1)
       IN IF g.ok THEN [g EXCEPT !.pos = ignoreNewline(toks, g.pos)] ELSE g
  ELSE [ok |-> TRUE, node |-> <<>>, pos |-> p3, diags |-> <<>>]

\* newExpr: from the member loop on, with the object expression parsed
newExprObject(toks, prefix, first) ==
  IF ~first.ok THEN newExprInfo(first, prefix)
  ELSE LET object == memberLoop(toks, ignoreNewline(toks, first.pos), first.node)
       IN IF ~object.ok THEN object
          ELSE newExprCall(toks, prefix, object.node,
                           newExprGeneric(toks, ignoreNewline(toks, object.pos)))

\* newExpr, called with the cursor right after the 'new' token
newExpr(toks, pos, prefix) ==
  newExprObject(toks, prefix,
                parsePrecedence(toks, ignoreNewline(toks, pos), OP11,
                                "Expected an expression after 'new'"))

\* Parser.matchIgnoreNewline: the cursor after the NEWLINEs and the token
\* of the given kind, the cursor unchanged when that token does not follow
matchIgnoreNewline(toks, pos, kind) ==
  IF toks[ignoreNewline(toks, pos)].type = kind
  THEN ignoreNewline(toks, pos) + 1
  ELSE pos

\* Parser.expression: an expression of the lowest precedence
expression(toks, pos, msg) == parsePrecedence(toks, pos, OP1, msg)

\* variableDecl: the error of expression with the info of variableDecl
\* added, the span that of the token before the cursor
variableDeclInfo(toks, expr) ==
  [expr EXCEPT !.diags =
     <<[expr.diags[1] EXCEPT
          !.info = IF expr.diags[1].msg = "Expected an expression after '='"
                   THEN <<[msg |-> "Add an expression after this =",
                           span |-> toks[expr.pos - 1].span]>>
                   ELSE @]>>]

\* variableDecl: the declaration whose node ends at the identifier
variableDeclEnd_AtIdentifier(toks, start, identifier, variableType, pos) ==
  IF matchIgnoreNewline(toks, pos, "EQUAL") # pos
  THEN LET expr == expression(toks, ignoreNewline(toks, matchIgnoreNewline(toks, pos, "EQUAL")),
                              "Expected an expression after '='")
       IN IF ~expr.ok THEN variableDeclInfo(toks, expr)
          ELSE Ok([type |-> "VARIABLE_DECL", identifier |-> identifier,
                   variableType |-> variableType, value |-> expr.node,
                   span |-> Span(start, identifier.span.end)], expr.pos)
  ELSE Ok([type |-> "EMPTY_VARIABLE_DECL", identifier |-> identifier,
           variableType |-> variableType,
           span |-> Span(start, identifier.span.end)], pos)

\* variableDecl: the look-ahead for '=' written as ignoreNewline followed
\* by match, which leaves the cursor after the NEWLINEs when no '=' follows
variableDeclEnd_IgnoreNewline(toks, start, identifier, variableType, pos) ==
  IF toks[ignoreNewline(toks, pos)].type = "EQUAL"
  THEN LET expr == expression(toks, ignoreNewline(toks, ignoreNewline(toks, pos) + 1),
                              "Expected an expression after '='")
       IN IF ~expr.ok THEN variableDeclInfo(toks, expr)
          ELSE Ok([type |-> "VARIABLE_DECL", identifier |-> identifier,
                   variableType |-> variableType, value |-> expr.node,
                   span |-> Span(start, toks[expr.pos - 1].span.end)], expr.pos)
  ELSE Ok([type |-> "EMPTY_VARIABLE_DECL", identifier |-> identifier,
           variableType |-> variableType,
           span |-> Span(start, toks[ignoreNewline(toks, pos) - 1].span.end)],
          ignoreNewline(toks, pos))

\* variableDecl: from the look-ahead for '=' on, the cursor at pos
variableDeclEnd(toks, start, identifier, variableType, pos) ==
  IF matchIgnoreNewline(toks, pos, "EQUAL") # pos
  THEN LET expr == expression(toks, ignoreNewline(toks, matchIgnoreNewline(toks, pos, "EQUAL")),
                              "Expected an expression after '='")
       IN IF ~expr.ok THEN variableDeclInfo(toks, expr)
          ELSE Ok([type |-> "VARIABLE_DECL", identifier |-> identifier,
                   variableType |-> variableType, value |-> expr.node,
                   span |-> Span(start, toks[expr.pos - 1].span.end)], expr.pos)
  ELSE Ok([type |-> "EMPTY_VARIABLE_DECL", identifier |-> identifier,
           variableType |-> variableType,
           span |-> Span(start, toks[pos - 1].span.end)], pos)

\* variableDecl: from the look-ahead for ':' on, the cursor right after
\* the identifier
variableDeclType(toks, start, identifier, pos) ==
  IF matchIgnoreNewline(toks, pos, "COLON") # pos
  THEN LET variableType ==
             matchTypeDecl(toks, ignoreNewline(toks, matchIgnoreNewline(toks, pos, "COLON")))
       IN IF ~variableType.ok THEN variableType
          ELSE variableDeclEnd(toks, start, identifier, variableType.node, variableType.pos)
  ELSE variableDeclEnd(toks, start, identifier, NoNode, pos)

\* variableDecl, called with the cursor right after the 'var' token
variableDecl(toks, pos) ==
  IF toks[ignoreNewline(toks, pos)].type # "IDENTIFIER"
  THEN Fail(toks, ignoreNewline(toks, pos), "Expected an identifier after \"var\"", <<>>)
  ELSE variableDeclType(toks, toks[pos].span.start, toks[ignoreNewline(toks, pos)],
                        ignoreNewline(toks, pos) + 1)

(***************************************************************************)
(* The token sequences the parser is run on: 'new', up to MaxParserFrags   *)
(* fragments, EOF                                                          *)
(***************************************************************************)
ParserFrags ==
  {<<"IDENTIFIER">>, <<"NUMBER">>, <<"DOT">>, <<"L_PAR">>, <<"NEWLINE">>,
   <<"L_PAR", "R_PAR">>, <<"L_PAR", "IDENTIFIER", "R_PAR">>,
   <<"L_PAR", "IDENTIFIER", "COMMA", "NUMBER", "R_PAR">>,
   <<"L_SQB", "NUMBER", "R_SQB">>, <<"LT", "IDENTIFIER", "GT">>}

\* the lexeme of a token of a type
LexemeOf(type) ==
  CASE type = "IDENTIFIER" -> "a"
    [] type = "NUMBER" -> "1"
    [] type = "NEW" -> "new"
    [] type = "VAR" -> "var"
    [] type = "COLON" -> ":"
    [] type = "EQUAL" -> "="
    [] type = "DOT" -> "."
    [] type = "COMMA" -> ","
    [] type = "L_PAR" -> "("
    [] type = "R_PAR" -> ")"
    [] type = "L_SQB" -> "["
    [] type = "R_SQB" -> "]"
    [] type = "LT" -> "<"
    [] type = "GT" -> ">"
    [] type = "NEWLINE" -> "\n"
    [] OTHER -> ""

RECURSIVE MkTokens(_, _, _)
\* the tokens of the given types laid out from <<line, col>>, one column
\* apart, a NEWLINE ending its line
MkTokens(types, line, col) ==
  IF types = <<>> THEN <<>>
  ELSE <<Token(Head(types), LexemeOf(Head(types)),
               Span(<<line, col>>, <<line, col + Len(LexemeOf(Head(types)))>>))>>
       \o (IF Head(types) = "NEWLINE"
           THEN MkTokens(Tail(types), line + 1, 0)
           ELSE MkTokens(Tail(types), line, col + Len(LexemeOf(Head(types))) + 1))

ParserInputs ==
  UNION {{MkTokens(<<"NEW">> \o Flatten(fs) \o <<"EOF">>, 0, 0) :
            fs \in [1..n -> ParserFrags]} : n \in 0..MaxParserFrags}

\* the fragments that follow 'var'
VarFrags ==
  {<<"IDENTIFIER">>, <<"NEWLINE">>, <<"COLON">>, <<"EQUAL">>, <<"NUMBER">>,
   <<"COLON", "IDENTIFIER">>, <<"COLON", "NEWLINE", "IDENTIFIER">>,
   <<"DOT", "IDENTIFIER">>, <<"LT", "IDENTIFIER", "GT">>,
   <<"EQUAL", "NEWLINE", "IDENTIFIER", "L_PAR", "NUMBER", "R_PAR">>}

\* 'var', up to MaxParserFrags fragments with at most one '=', EOF
VarInputs ==
  UNION {{MkTokens(<<"VAR">> \o Flatten(fs) \o <<"EOF">>, 0, 0) :
            fs \in {f \in [1..n -> VarFrags] :
                      Cardinality({i \in 1..n : f[i][1] = "EQUAL"}) <= 1}} :
         n \in 0..MaxParserFrags}

(***************************************************************************)
(* Parser: the state machine                                               *)
(***************************************************************************)
ParIdle ==
  /\ ptokens = <<>>
  /\ current = 0
  /\ ast = NoNode
  /\ pdiagnostics = <<>>
  /\ ppc = "idle"

\* new Parser(tokens), the first token taken: 'new' as the prefix of an
\* expression, 'var' as the start of a declaration
ParInit ==
  /\ \/ ptokens \in ParserInputs /\ ppc = "prefix"
     \/ ptokens \in VarInputs /\ ppc = "declaration"
  /\ current = 2
  /\ ast = NoNode
  /\ pdiagnostics = <<>>

\* the prefix rule of 'new' returns a NewExpression
NewExprReturn ==
  /\ ppc = "prefix"
  /\ LET r == newExpr(ptokens, current, ptokens[current - 1])
     IN /\ r.ok
        /\ ast' = r.node
        /\ current' = r.pos
  /\ ppc' = "parsed"
  /\ UNCHANGED <<ptokens, pdiagnostics>>

\* the prefix rule of 'new' reports a diagnostic and gives no node
NewExprError ==
  /\ ppc = "prefix"
  /\ LET r == newExpr(ptokens, current, ptokens[current - 1])
     IN /\ ~r.ok
        /\ pdiagnostics' = pdiagnostics \o r.diags
        /\ current' = r.pos
  /\ ppc' = "failed"
  /\ UNCHANGED <<ptokens, ast>>

\* variableDecl returns a declaration node
VariableDeclReturn ==
  /\ ppc = "declaration"
  /\ LET r == variableDecl(ptokens, current)
     IN /\ r.ok
        /\ ast' = r.node
        /\ current' = r.pos
  /\ ppc' = "parsed"
  /\ UNCHANGED <<ptokens, pdiagnostics>>

\* variableDecl reports a diagnostic and gives no node
VariableDeclError ==
  /\ ppc = "declaration"
  /\ LET r == variableDecl(ptokens, current)
     IN /\ ~r.ok
        /\ pdiagnostics' = pdiagnostics \o r.diags
        /\ current' = r.pos
  /\ ppc' = "failed"
  /\ UNCHANGED <<ptokens, ast>>

ParNext == NewExprReturn \/ NewExprError \/ VariableDeclReturn \/ VariableDeclError

(***************************************************************************)
(* Linter: the programs that are walked.  A program is a tree of nodes     *)
(* numbered in pre-order, node 1 the Program; parent, kind and isStatic    *)
(* are sequences indexed by node.                                          *)
(***************************************************************************)
LoopKinds == {"FOR_STMT", "WHILE_STMT", "REPEAT_STMT"}

ControlKinds == {"RETURN_STMT", "BREAK_STMT", "CONTINUE_STMT", "FALLTHROUGH_STMT"}

\* kinds whose body holds statements
BlockKinds ==
  {"PROGRAM", "FUNCTION_DECL", "CLASS_DECL", "FOR_STMT", "SWITCH_CASE", "IF_STMT"}

RECURSIVE Ancestors(_, _)
\* the proper ancestors of node id
Ancestors(parent, id) ==
  IF parent[id] = 0 THEN {} ELSE {parent[id]} \cup Ancestors(parent, parent[id])

\* the kinds of the statements that stand in a body
StatementKinds ==
  {"FUNCTION_DECL", "CLASS_DECL", "FOR_STMT", "IF_STMT", "SWITCH_STMT"} \cup ControlKinds

\* the kinds of the children a node of a kind takes: statements stand in
\* bodies, switch cases in switches
ChildKinds(kind) ==
  IF kind = "SWITCH_STMT" THEN {"SWITCH_CASE"}
  ELSE IF kind \in BlockKinds THEN StatementKinds
  ELSE {}

\* parent numbers the nodes in pre-order
PreOrder(parent) ==
  /\ parent[1] = 0
  /\ \A i \in 2..Len(parent) :
       /\ parent[i] \in 1..(i - 1)
       /\ parent[i] \in {i - 1} \cup Ancestors(parent, i - 1)

\* the shapes of the trees of n nodes
ParentChoices(n) ==
  {p \in [1..n -> 0..(n - 1)] : PreOrder(p)}

\* the tree is one the parser builds
WellFormed(t) ==
  \A i \in 2..Len(t.kind) : t.kind[i] \in ChildKinds(t.kind[t.parent[i]])

\* t is a program of up to MaxNodes statements: control statements nested
\* in functions, classes, loops, switch cases and ifs
ControlTree(t) ==
  \E n \in 0..MaxNodes :
    \E p \in ParentChoices(n + 1) :
      \E k \in [1..n -> StatementKinds \cup {"SWITCH_CASE"}] :
        LET c == [parent |-> p, kind |-> [i \in 1..(n + 1) |->
                                            IF i = 1 THEN "PROGRAM" ELSE k[i - 1]],
                  isStatic |-> [i \in 1..(n + 1) |-> FALSE]]
        IN WellFormed(c) /\ t = c

\* a program of one class with up to MaxMembers static and instance members
ClassTrees ==
  UNION {{[parent |-> <<0, 1>> \o [i \in 1..m |-> 2],
           kind |-> <<"PROGRAM", "CLASS_DECL">> \o k,
           isStatic |-> <<FALSE, FALSE>> \o s] :
            k \in [1..m -> {"VARIABLE_DECL", "FUNCTION_DECL", "EXPRESSION_STMT",
                            "IF_STMT"}],
            s \in [1..m -> BOOLEAN]} :
         m \in 0..MaxMembers}

\* the span of node id
SpanOf(id) == Span(<<id - 1, 0>>, <<id - 1, 1>>)

\* the children of node id, in source order
Children(t, id) ==
  SelectSeq([i \in 1..Len(t.kind) |-> i], LAMBDA i : t.parent[i] = id)

\* the entries of a class body: the static or the instance members
Body(t, id, static) ==
  LET members == SelectSeq(Children(t, id), LAMBDA i : t.isStatic[i] = static)
  IN [j \in 1..Len(members) |->
        [value |-> [type |-> t.kind[members[j]], span |-> SpanOf(members[j])]]]

\* the node the walker hands to the callbacks
NodeOf(t, id) ==
  IF t.kind[id] = "CLASS_DECL"
  THEN [type |-> t.kind[id], span |-> SpanOf(id),
        staticBody |-> Body(t, id, TRUE), instanceBody |-> Body(t, id, FALSE)]
  ELSE [type |-> t.kind[id], span |-> SpanOf(id)]

(***************************************************************************)
(* Linter: the rules                                                       *)
(***************************************************************************)
\* report(message, span) of a rule of level ERROR
report(msg, span) == Diagnostic("ERROR", "linter", msg, span)

Declarations ==
  {"VARIABLE_DECL", "EMPTY_VARIABLE_DECL", "FUNCTION_DECL", "CLASS_DECL", "IMPORT_DECL"}

\* grammar.isDeclaration
isDeclaration(node) == node.type \in Declarations

\* declarationsInClass: checkNode
checkNode(node) ==
  IF ~isDeclaration(node)
  THEN <<report("You can only put declarations in a class body", node.span)>>
  ELSE <<>>

RECURSIVE forEachCheckNode(_)
\* body.forEach(prop => checkNode(prop.value))
forEachCheckNode(body) ==
  IF body = <<>> THEN <<>>
  ELSE checkNode(Head(body).value) \o forEachCheckNode(Tail(body))

\* the callback with the two bodies checked in the other order
declarationsInClass_InstanceFirst(node) ==
  forEachCheckNode(node.instanceBody) \o forEachCheckNode(node.staticBody)

\* declarationsInClass: the onEnter(ClassDeclaration) callback
declarationsInClass(node) ==
  forEachCheckNode(node.staticBody) \o forEachCheckNode(node.instanceBody)

RETURN_ERROR == "You can only place return inside a function"

\* the message of break with the text of continue
BREAK_ERROR_AsContinue == "You can only place continue inside a loop"

BREAK_ERROR == "You can only place break inside a loop or switch case"

CONTINUE_ERROR == "You can only place continue inside a loop"

FALLTHROUGH_ERROR == "You can only place fallthrough inside a switch case"

\* invalidControlStatement: the counter a node kind moves, "" when none
CounterOf(type) ==
  CASE type = "FUNCTION_DECL" -> "inFunction"
    [] type \in LoopKinds -> "inLoop"
    [] type = "SWITCH_STMT" -> "inSwitch"
    [] type = "SWITCH_CASE" -> "inCase"
    [] OTHER -> ""

\* invalidControlStatement with counters that only the enter callbacks
\* change
countersAfter_EnterOnly(c, node, by) ==
  IF CounterOf(node.type) = "" \/ by < 0 THEN c
  ELSE [c EXCEPT ![CounterOf(node.type)] = @ + by]

\* invalidControlStatement: the counters after entering (by = 1) or
\* leaving (by = -1) a node
countersAfter(c, node, by) ==
  IF CounterOf(node.type) = "" THEN c
  ELSE [c EXCEPT ![CounterOf(node.type)] = @ + by]

\* invalidControlStatement: the onEnter callbacks of the control statements
invalidControlStatement(c, node) ==
  CASE node.type = "RETURN_STMT" /\ c.inFunction = 0 ->
         <<report(RETURN_ERROR, node.span)>>
    [] node.type = "BREAK_STMT" /\ c.inLoop = 0 /\ c.inCase = 0 ->
         <<report(BREAK_ERROR, node.span)>>
    [] node.type = "CONTINUE_STMT" /\ c.inLoop = 0 ->
         <<report(CONTINUE_ERROR, node.span)>>
    [] node.type = "FALLTHROUGH_STMT" /\ c.inCase = 0 ->
         <<report(FALLTHROUGH_ERROR, node.span)>>
    [] OTHER -> <<>>

(***************************************************************************)
(* Linter: the walker as a state machine.  stack is the path from the      *)
(* Program to the node being visited, visited the number of nodes entered. *)
(***************************************************************************)
LintIdle ==
  /\ tree = [parent |-> <<>>, kind |-> <<>>, isStatic |-> <<>>]
  /\ stack = <<>>
  /\ visited = 0
  /\ counters = [inFunction |-> 0, inLoop |-> 0, inSwitch |-> 0, inCase |-> 0]
  /\ reports = <<>>
  /\ wpc = "idle"

LintInit ==
  /\ ControlTree(tree) \/ tree \in ClassTrees
  /\ stack = <<>>
  /\ visited = 0
  /\ counters = [inFunction |-> 0, inLoop |-> 0, inSwitch |-> 0, inCase |-> 0]
  /\ reports = <<>>
  /\ wpc = "walk"

\* the walker enters the next node: the enter callbacks run in
\* registration order before its subtree is visited
Enter ==
  /\ wpc = "walk"
  /\ visited < Len(tree.kind)
  /\ tree.parent[visited + 1] = (IF stack = <<>> THEN 0 ELSE stack[Len(stack)])
  /\ LET node == NodeOf(tree, visited + 1)
     IN /\ reports' = reports
             \o (IF node.type = "CLASS_DECL" THEN declarationsInClass(node) ELSE <<>>)
             \o invalidControlStatement(counters, node)
        /\ counters' = countersAfter(counters, node, 1)
  /\ stack' = Append(stack, visited + 1)
  /\ visited' = visited + 1
  /\ UNCHANGED <<tree, wpc>>

\* the walker leaves the node on top of the stack once its subtree is
\* fully visited: the leave callbacks run
Leave ==
  /\ wpc = "walk"
  /\ stack # <<>>
  /\ IF visited = Len(tree.kind) THEN TRUE
     ELSE tree.parent[visited + 1] # stack[Len(stack)]
  /\ counters' = countersAfter(counters, NodeOf(tree, stack[Len(stack)]), -1)
  /\ stack' = SubSeq(stack, 1, Len(stack) - 1)
  /\ wpc' = IF Len(stack) = 1 THEN "done" ELSE "walk"
  /\ UNCHANGED <<tree, visited, reports>>

LintNext == Enter \/ Leave

(***************************************************************************)
(* Parser.parse on the tokens of the tokenizer, as the test utilities run  *)
(* it: statements up to EOF, each a statement expression ended by NEWLINE  *)
(***************************************************************************)
\* a statement expression: an expression, then the end of the line
expressionStmt(toks, pos) ==
  LET expr == expression(toks, pos, "Expected an expression")
  IN IF ~expr.ok THEN expr
     ELSE IF toks[expr.pos].type = "NEWLINE"
     THEN Ok([type |-> "EXPRESSION_STMT", expression |-> expr.node,
              span |-> expr.node.span], expr.pos + 1)
     ELSE IF toks[expr.pos].type = "EOF"
     THEN Ok([type |-> "EXPRESSION_STMT", expression |-> expr.node,
              span |-> expr.node.span], expr.pos)
     ELSE Fail(toks, expr.pos, "Expected a newline", <<>>)

RECURSIVE sync(_, _)
\* panic-mode sync: the cursor at the next NEWLINE or at EOF
sync(toks, pos) ==
  IF toks[pos].type \in {"NEWLINE", "EOF"} THEN pos ELSE sync(toks, pos + 1)

\* a statement put in front of the statements parsed after it
programCons(stmt, rest) ==
  [body |-> <<stmt.node>> \o rest.body, diagnostics |-> rest.diagnostics]

\* the diagnostics of a failed statement put in front of what is parsed
\* after it
programSkip(stmt, rest) ==
  [body |-> rest.body, diagnostics |-> stmt.diags \o rest.diagnostics]

RECURSIVE parse(_, _)
\* Parser.parse: the statements from the cursor up to EOF and the
\* diagnostics of the statements that failed
parse(toks, pos) ==
  IF toks[pos].type = "EOF" THEN [body |-> <<>>, diagnostics |-> <<>>]
  ELSE IF toks[pos].type = "NEWLINE" THEN parse(toks, pos + 1)
  ELSE IF expressionStmt(toks, pos).ok
  THEN programCons(expressionStmt(toks, pos), parse(toks, expressionStmt(toks, pos).pos))
  ELSE programSkip(expressionStmt(toks, pos),
                   parse(toks, sync(toks, expressionStmt(toks, pos).pos)))

\* the characters of the argument expressions of the calls
CallArgs == {<<"t", "r", "u", "e">>, <<"2", "0">>, <<"x">>}

\* what separates two arguments
CallSeps == {<<",">>, <<",", " ">>}

\* the lines before the call
CallLeads == {<<>>, <<"\n">>, <<"#", "c", "\n">>}

RECURSIVE JoinArgs(_, _)
JoinArgs(args, sep) ==
  IF args = <<>> THEN <<>>
  ELSE IF Len(args) = 1 THEN args[1]
  ELSE args[1] \o sep \o JoinArgs(Tail(args), sep)

\* the source of a call of fn with the given arguments
CallSource(lead, args, sep) ==
  lead \o <<"f", "n", "(">> \o JoinArgs(args, sep) \o <<")">>

\* a statement line fn(a1, ..., an) with up to MaxArgs arguments
CallSources ==
  UNION {{CallSource(lead, args, sep) :
            lead \in CallLeads, args \in [1..n -> CallArgs], sep \in CallSeps} :
         n \in 0..MaxArgs}

\* new Tokenizer(code) of TestUtils.tokenize
PipelineInit ==
  /\ source \in CallSources
  /\ lines = Split(source)
  /\ tokens = <<>>
  /\ comments = <<>>
  /\ diagnostics = <<>>
  /\ indent = 0
  /\ lineIndex = 0
  /\ colIndex = 0
  /\ pc = "for"

\* TestUtils.tokenize throws when the tokenizer returned diagnostics
TokenizeThrow ==
  /\ pc = "done"
  /\ ppc = "idle"
  /\ diagnostics # <<>>
  /\ ppc' = "threw"
  /\ UNCHANGED <<ptokens, current, ast, pdiagnostics>>

\* TestUtils.parse: new Parser(tokens).parse()
ParserParse ==
  /\ pc = "done"
  /\ ppc = "idle"
  /\ diagnostics = <<>>
  /\ ptokens' = tokens
  /\ current' = Len(tokens)
  /\ ast' = [type |-> "PROGRAM", body |-> parse(tokens, 1).body]
  /\ pdiagnostics' = parse(tokens, 1).diagnostics
  /\ ppc' = "parsed"

PipelineNext ==
  \/ TokNext /\ UNCHANGED parVars
  \/ (TokenizeThrow \/ ParserParse) /\ UNCHANGED tokVars

(***************************************************************************)
(* The specifications: the tokenizer, the parser and the linter are run    *)
(* one at a time, the variables of the other two left idle                 *)
(***************************************************************************)
TokIdle ==
  /\ source = <<>>
  /\ lines = <<>>
  /\ tokens = <<>>
  /\ comments = <<>>
  /\ diagnostics = <<>>
  /\ indent = 0
  /\ lineIndex = 0
  /\ colIndex = 0
  /\ pc = "idle"

Init == TokInit /\ ParIdle /\ LintIdle

Next == TokNext /\ UNCHANGED <<parVars, lintVars>>

\* tokenize(source)
Spec == Init /\ [][Next]_vars

\* the steps of tokenize other than an iteration of the column loop
LineStep ==
  /\ ScanBlankLine \/ ScanCommentLine \/ ScanLineBegin \/ ScanLineEnd \/ TokenizeEnd
  /\ UNCHANGED <<parVars, lintVars>>

\* the column loop has a column to scan
InColumnLoop == pc = "while" /\ colIndex < Len(lines[lineIndex + 1])

\* tokenize(source) run to its end: the program is sequential, so the loop
\* of tokenize goes on while it has a line to scan and the column loop of
\* scanLine while it has a column to scan (weak fairness of ScanChar, its
\* enabling condition written as the condition of the loop)
SpecTermination ==
  /\ Spec
  /\ WF_vars(LineStep)
  /\ (<>[]InColumnLoop => []<><<ScanChar>>_tokVars)

InitParser == TokIdle /\ ParInit /\ LintIdle

NextParser == ParNext /\ UNCHANGED <<tokVars, lintVars>>

\* the parser on a token sequence that starts with 'new'
SpecParser == InitParser /\ [][NextParser]_vars

InitLinter == TokIdle /\ ParIdle /\ LintInit

NextLinter == LintNext /\ UNCHANGED <<tokVars, parVars>>

\* lint(ast, rules)
SpecLinter == InitLinter /\ [][NextLinter]_vars

InitPipeline == PipelineInit /\ ParIdle /\ LintIdle

NextPipeline == PipelineNext /\ UNCHANGED lintVars

\* TestUtils.parse(code)
SpecPipeline == InitPipeline /\ [][NextPipeline]_vars

(***************************************************************************)
(* Vocabulary of the properties                                            *)
(***************************************************************************)
Done == pc = "done"

\* tokens that stand for no characters of the line
Virtual == {"INDENT", "OUTDENT", "NEWLINE", "EOF"}

CountType(toks, type) == Cardinality({k \in DOMAIN toks : toks[k].type = type})

\* p is not after q
PosLeq(p, q) == p[1] < q[1] \/ (p[1] = q[1] /\ p[2] <= q[2])

IsBlankLine(line) == \A k \in DOMAIN line : line[k] \in Space

IsCommentLine(line) ==
  \E k \in DOMAIN line : line[k] = "#" /\ \A j \in 1..(k - 1) : line[j] \in Space

IsCodeLine(line) == ~IsBlankLine(line) /\ ~IsCommentLine(line)

\* indices of the tokens of a kind in kinds that start on line i
TokensOn(i, kinds) ==
  {k \in DOMAIN tokens : tokens[k].type \in kinds /\ tokens[k].span.start[1] = i}

ContentOn(i) ==
  {k \in DOMAIN tokens : tokens[k].type \notin Virtual /\ tokens[k].span.start[1] = i}

\* the character of the source at a position, "" past the end of the line
CharAt(pos) ==
  IF pos[2] < Len(lines[pos[1] + 1]) THEN lines[pos[1] + 1][pos[2] + 1] ELSE ""

\* the number of backslashes right before the 1-based index q, after p
BackslashRun(line, p, q) ==
  CHOOSE n \in 0..(q - p - 1) :
    /\ \A j \in 1..n : line[q - j] = "\\"
    /\ (q - n - 1 = p \/ line[q - n - 1] # "\\")

\* the quote at the 1-based index q of line closes a string opened at p:
\* it is preceded by an even number of backslashes, and no escaping
\* backslash before it stands before a character that '.' does not match
ClosesAt(line, p, q) ==
  /\ q > p
  /\ q <= Len(line)
  /\ line[q] = "'"
  /\ BackslashRun(line, p, q) % 2 = 0
  /\ \A j \in (p + 1)..(q - 1) :
       (line[j] = "\\" /\ BackslashRun(line, p, j) % 2 = 0)
         => line[j + 1] \notin LineTerminators

\* the ' at the 1-based index p of line is closed later on the line
Terminated(line, p) == \E q \in (p + 1)..Len(line) : ClosesAt(line, p, q)

(***************************************************************************)
(* C1  Indent balance: the token list returned by tokenize holds as many   *)
(* INDENT tokens as OUTDENT tokens.                                        *)
(***************************************************************************)
IndentBalance ==
  Done => CountType(tokens, "INDENT") = CountType(tokens, "OUTDENT")

\* a finished run with an indent jump of two levels, a comment line and a
\* blank line
IndentBalanceWitness ==
  /\ Done
  /\ \E k \in 1..(Len(tokens) - 1) :
       tokens[k].type = "INDENT" /\ tokens[k + 1].type = "INDENT"
  /\ comments # <<>>
  /\ \E i \in DOMAIN lines : IsBlankLine(lines[i])

(***************************************************************************)
(* C2  Source order: the start of every token of the returned list is not  *)
(* after the start of the token that follows it.                           *)
(***************************************************************************)
SourceOrder ==
  Done => \A k \in 1..(Len(tokens) - 1) :
            PosLeq(tokens[k].span.start, tokens[k + 1].span.start)

(***************************************************************************)
(* C3  Whitespace is not tokenised: no token other than the virtual ones   *)
(* and no diagnostic starts at a space or tab of a line.                   *)
(***************************************************************************)
WhitespaceNotTokenised ==
  Done =>
    /\ \A k \in DOMAIN tokens :
         tokens[k].type \notin Virtual => CharAt(tokens[k].span.start) \notin Space
    /\ \A k \in DOMAIN diagnostics : CharAt(diagnostics[k].span.start) \notin Space

(***************************************************************************)
(* C4  Token completeness: a line that is neither blank nor a comment line *)
(* has exactly one NEWLINE token, on that line, right after the last       *)
(* content token of the line; a blank or comment line has none.            *)
(***************************************************************************)
TokenCompleteness ==
  Done =>
    \A i \in 0..(Len(lines) - 1) :
      IF IsCodeLine(lines[i + 1])
      THEN /\ Cardinality(TokensOn(i, {"NEWLINE"})) = 1
           /\ \A n \in TokensOn(i, {"NEWLINE"}) :
                /\ tokens[n].span.end[1] = i
                /\ \A c \in ContentOn(i) : c < n
                /\ ContentOn(i) # {} => (n - 1) \in ContentOn(i)
      ELSE TokensOn(i, {"NEWLINE"}) = {}

\* a finished run with a comment line and a code line that holds both a
\* content token and a character reported as an error
TokenCompletenessWitness ==
  /\ Done
  /\ \E i \in DOMAIN lines : IsCommentLine(lines[i])
  /\ \E i \in 0..(Len(lines) - 1) :
       /\ ContentOn(i) # {}
       /\ \E d \in DOMAIN diagnostics : diagnostics[d].span.start[1] = i
       /\ TokensOn(i, {"NEWLINE"}) # {}

(***************************************************************************)
(* C5  Unterminated string, as claimed: after the diagnostic of a ' that   *)
(* is not closed the rest of the line gives no content token and no        *)
(* diagnostic.                                                             *)
(***************************************************************************)
UnterminatedSkipsLine ==
  Done =>
    \A d \in DOMAIN diagnostics :
      diagnostics[d].msg = "Unexpected token '''" =>
        /\ \A k \in ContentOn(diagnostics[d].span.start[1]) :
             tokens[k].span.start[2] < diagnostics[d].span.start[2]
        /\ \A e \in DOMAIN diagnostics :
             diagnostics[e].span.start[1] = diagnostics[d].span.start[1]
               => diagnostics[e].span.start[2] <= diagnostics[d].span.start[2]

(***************************************************************************)
(* C5 as amended: when the column loop stands on a ' that is not closed    *)
(* later on the line, the iteration records the diagnostic                 *)
(* "Unexpected token '''" on exactly that character, pushes no token and   *)
(* no comment, and moves one character on, staying on the line.            *)
(***************************************************************************)
UnterminatedSkipsQuote ==
  [][(/\ pc = "while"
      /\ colIndex < Len(lines[lineIndex + 1])
      /\ lines[lineIndex + 1][colIndex + 1] = "'"
      /\ ~Terminated(lines[lineIndex + 1], colIndex + 1))
     => (/\ diagnostics' = Append(diagnostics,
              Diagnostic("ERROR", "tokenizer", "Unexpected token '''",
                         Span(<<lineIndex, colIndex>>, <<lineIndex, colIndex + 1>>)))
         /\ tokens' = tokens
         /\ comments' = comments
         /\ colIndex' = colIndex + 1
         /\ lineIndex' = lineIndex
         /\ pc' = "while")]_vars

\* the column loop has just stepped over an unterminated ' and the rest
\* of the line is still to be scanned
UnterminatedSkipsQuoteWitness ==
  /\ pc = "while"
  /\ colIndex > 0
  /\ colIndex < Len(lines[lineIndex + 1])
  /\ lines[lineIndex + 1][colIndex] = "'"
  /\ ~Terminated(lines[lineIndex + 1], colIndex)
  /\ diagnostics # <<>>
  /\ diagnostics[Len(diagnostics)].span =
       Span(<<lineIndex, colIndex - 1>>, <<lineIndex, colIndex>>)
  /\ diagnostics[Len(diagnostics)].msg = "Unexpected token '''"

(***************************************************************************)
(* C6  Multi-word comparison operator: when the column loop stands on text *)
(* of the form is\s+(not|(less|greater)\s+than), the iteration pushes      *)
(* exactly one token, IS_NOT, IS_LESS_THAN or IS_GREATER_THAN by the       *)
(* second word, whose lexeme and span are the whole match, records no      *)
(* diagnostic and resumes right after the match.                           *)
(***************************************************************************)
\* chars is "is", a whitespace characters, the word second and, when b > 0,
\* b whitespace characters and "than": the length of that text, else 0
OperatorText(chars, a, second, b) ==
  IF /\ StartsWith(chars, 1, <<"i", "s">>)
     /\ a >= 1
     /\ \A j \in 3..(2 + a) : j <= Len(chars) /\ chars[j] \in Space
     /\ StartsWith(chars, 3 + a, second)
     /\ b > 0 =>
          /\ \A j \in (3 + a + Len(second))..(2 + a + Len(second) + b) :
               j <= Len(chars) /\ chars[j] \in Space
          /\ StartsWith(chars, 3 + a + Len(second) + b, <<"t", "h", "a", "n">>)
  THEN 2 + a + Len(second) + (IF b > 0 THEN b + 4 ELSE 0)
  ELSE 0

\* the operators that the text at the start of chars spells: length and kind
OperatorAt(chars) ==
  {m \in
     {[len |-> OperatorText(chars, a, <<"n", "o", "t">>, 0), type |-> "IS_NOT"] :
        a \in 1..Len(chars)}
     \cup
     {[len |-> OperatorText(chars, ab[1], <<"l", "e", "s", "s">>, ab[2]),
       type |-> "IS_LESS_THAN"] : ab \in (1..Len(chars)) \X (1..Len(chars))}
     \cup
     {[len |-> OperatorText(chars, ab[1], <<"g", "r", "e", "a", "t", "e", "r">>, ab[2]),
       type |-> "IS_GREATER_THAN"] : ab \in (1..Len(chars)) \X (1..Len(chars))} :
   m.len > 0}

MultiWordOperator ==
  [][(pc = "while" /\ colIndex < Len(lines[lineIndex + 1]))
     => \A m \in OperatorAt(slice(lines[lineIndex + 1], colIndex)) :
          /\ tokens' = Append(tokens,
               Token(m.type,
                     Str(SubSeq(lines[lineIndex + 1], colIndex + 1, colIndex + m.len)),
                     Span(<<lineIndex, colIndex>>, <<lineIndex, colIndex + m.len>>)))
          /\ diagnostics' = diagnostics
          /\ comments' = comments
          /\ colIndex' = colIndex + m.len
          /\ lineIndex' = lineIndex
          /\ pc' = "while"]_vars

\* the column loop has just pushed an IS_GREATER_THAN token whose words
\* are separated by more than one whitespace character
MultiWordOperatorWitness ==
  /\ pc = "while"
  /\ tokens # <<>>
  /\ tokens[Len(tokens)].type = "IS_GREATER_THAN"
  /\ tokens[Len(tokens)].span.end = <<lineIndex, colIndex>>
  /\ tokens[Len(tokens)].span.end[2] - tokens[Len(tokens)].span.start[2] > 15

(***************************************************************************)
(* C10  Comment isolation: tokens never holds a COMMENT; a line has one    *)
(* entry in comments, running from its first '#' outside a string literal  *)
(* to the end of the line, when there is such a '#', and none otherwise.   *)
(***************************************************************************)
RECURSIVE CommentStart(_, _)
\* the 1-based index of the first '#' at or after k that is outside the
\* string literals of the line, 0 when there is none
CommentStart(line, k) ==
  IF k > Len(line) THEN 0
  ELSE IF line[k] = "#" THEN k
  ELSE IF line[k] = "'" /\ Terminated(line, k)
       THEN CommentStart(line,
              1 + (CHOOSE q \in (k + 1)..Len(line) :
                     /\ ClosesAt(line, k, q)
                     /\ \A r \in (k + 1)..(q - 1) : ~ClosesAt(line, k, r)))
  ELSE CommentStart(line, k + 1)

\* the entries of comments that start on line i
CommentsOn(i) == {k \in DOMAIN comments : comments[k].span.start[1] = i}

CommentIsolation ==
  /\ \A k \in DOMAIN tokens : tokens[k].type # "COMMENT"
  /\ Done =>
       /\ \A k \in DOMAIN comments : comments[k].type = "COMMENT"
       /\ \A k \in 1..(Len(comments) - 1) :
            comments[k].span.start[1] < comments[k + 1].span.start[1]
       /\ \A i \in 0..(Len(lines) - 1) :
            LET c == CommentStart(lines[i + 1], 1)
            IN IF c = 0 THEN CommentsOn(i) = {}
               ELSE /\ Cardinality(CommentsOn(i)) = 1
                    /\ \A k \in CommentsOn(i) :
                         /\ comments[k].lexeme =
                              Str(SubSeq(lines[i + 1], c, Len(lines[i + 1])))
                         /\ comments[k].span =
                              Span(<<i, c - 1>>, <<i, Len(lines[i + 1])>>)

\* a finished run with a trailing comment after code on a line that also
\* holds a string literal with a '#' in it
CommentIsolationWitness ==
  /\ Done
  /\ \E k \in DOMAIN tokens : tokens[k].type = "STRING" /\ tokens[k].lexeme = "'#'"
  /\ \E k \in DOMAIN comments :
       /\ comments[k].span.start[2] > 0
       /\ ContentOn(comments[k].span.start[1]) # {}

(***************************************************************************)
(* Properties of the parser                                                *)
(***************************************************************************)
RECURSIVE IsMemberChain(_)
\* node is an Identifier or a chain of Member expressions on an Identifier
IsMemberChain(node) ==
  \/ node.type = "IDENTIFIER"
  \/ node.type = "MEMBER_EXPR" /\ IsMemberChain(node.object)

\* C7: the object of every NewExpression the parser returns is an
\* Identifier or a chain of Member expressions whose leaves are
\* Identifiers, never a Call, Index, Literal or Wrapped expression
NewObjectShape ==
  (ppc = "parsed" /\ ast.type = "NEW_EXPR") => IsMemberChain(ast.object)

(***************************************************************************)
(* Properties of the linter                                                *)
(***************************************************************************)
\* the kinds among the proper ancestors of node id
AncestorKinds(id) == {tree.kind[a] : a \in Ancestors(tree.parent, id)}

\* node id is a control statement outside the construct it needs
Misplaced(id) ==
  \/ tree.kind[id] = "RETURN_STMT" /\ "FUNCTION_DECL" \notin AncestorKinds(id)
  \/ tree.kind[id] = "BREAK_STMT"
       /\ AncestorKinds(id) \cap (LoopKinds \cup {"SWITCH_CASE"}) = {}
  \/ tree.kind[id] = "CONTINUE_STMT" /\ AncestorKinds(id) \cap LoopKinds = {}
  \/ tree.kind[id] = "FALLTHROUGH_STMT" /\ "SWITCH_CASE" \notin AncestorKinds(id)

\* the message for a misplaced control statement of a kind
ControlMessage(kind) ==
  CASE kind = "RETURN_STMT" -> "You can only place return inside a function"
    [] kind = "BREAK_STMT" -> "You can only place break inside a loop or switch case"
    [] kind = "CONTINUE_STMT" -> "You can only place continue inside a loop"
    [] kind = "FALLTHROUGH_STMT" -> "You can only place fallthrough inside a switch case"
    [] OTHER -> ""

\* the indices of the reports about control statements
ControlReports ==
  {k \in 1..Len(reports) : reports[k].msg \in {ControlMessage(c) : c \in ControlKinds}}

\* C8: of the control statements entered so far, each one outside the
\* construct it needs (return outside every function, break outside every
\* loop and switch case, continue outside every loop, fallthrough outside
\* every switch case) has exactly one report, with the message of its
\* kind at its span, and each one inside the construct at any depth has
\* none; the rule reports nothing else
ControlStatementReports ==
  /\ \A id \in 1..visited :
       tree.kind[id] \in ControlKinds =>
         Cardinality({k \in ControlReports : reports[k].span = SpanOf(id)})
           = (IF Misplaced(id) THEN 1 ELSE 0)
  /\ \A k \in ControlReports :
       \E id \in 1..visited :
         /\ Misplaced(id)
         /\ reports[k] = Diagnostic("ERROR", "linter", ControlMessage(tree.kind[id]),
                                    SpanOf(id))

\* a walk is over in which a return inside a function got no report and
\* a break in the same function, outside every loop and switch case, got
\* the one report there is
ControlStatementReportsWitness ==
  /\ wpc = "done"
  /\ tree.kind = <<"PROGRAM", "FUNCTION_DECL", "RETURN_STMT", "BREAK_STMT">>
  /\ tree.parent = <<0, 1, 2, 2>>
  /\ Len(reports) = 1
  /\ reports[1].msg = "You can only place break inside a loop or switch case"
  /\ reports[1].span = SpanOf(4)

\* the members of the classes entered so far
EnteredMembers ==
  {m \in 1..Len(tree.kind) :
     /\ tree.parent[m] \in 1..visited
     /\ tree.kind[tree.parent[m]] = "CLASS_DECL"}

\* the indices of the reports about class bodies
ClassReports ==
  {k \in 1..Len(reports) :
     reports[k].msg = "You can only put declarations in a class body"}

\* the member a report about a class body is on
MemberOf(k) == CHOOSE m \in EnteredMembers : reports[k].span = SpanOf(m)

\* member m is checked before member n: the class of m is entered first,
\* or in one class m is static and n is not, or both are in one body and
\* m stands first
CheckedBefore(m, n) ==
  \/ tree.parent[m] < tree.parent[n]
  \/ /\ tree.parent[m] = tree.parent[n]
     /\ \/ tree.isStatic[m] /\ ~tree.isStatic[n]
        \/ tree.isStatic[m] = tree.isStatic[n] /\ m < n

\* C9: once a ClassDeclaration is entered, each entry of its staticBody
\* and instanceBody that is not a declaration has exactly one report 'You
\* can only put declarations in a class body' at its span, each entry that
\* is a declaration has none, nothing else is reported with that message,
\* and the reports stand in the order static entries, then instance
\* entries, each body in its order
DeclarationReports ==
  /\ \A m \in EnteredMembers :
       Cardinality({k \in ClassReports : reports[k].span = SpanOf(m)})
         = (IF tree.kind[m] \in {"VARIABLE_DECL", "EMPTY_VARIABLE_DECL", "FUNCTION_DECL",
                                 "CLASS_DECL", "IMPORT_DECL"}
            THEN 0 ELSE 1)
  /\ \A k \in ClassReports :
       /\ \E m \in EnteredMembers : reports[k].span = SpanOf(m)
       /\ reports[k].level = "ERROR" /\ reports[k].source = "linter"
  /\ \A j, k \in ClassReports : j < k => CheckedBefore(MemberOf(j), MemberOf(k))

\* a class is entered whose first entry is an instance entry that is not a
\* declaration, followed by a declaration and by a static entry that is
\* not a declaration: the static entry is reported first
DeclarationReportsWitness ==
  /\ visited >= 2
  /\ Len(tree.kind) = 5
  /\ tree.kind[2] = "CLASS_DECL"
  /\ tree.kind[3] = "EXPRESSION_STMT" /\ ~tree.isStatic[3]
  /\ tree.kind[4] = "VARIABLE_DECL"
  /\ tree.kind[5] = "IF_STMT" /\ tree.isStatic[5]
  /\ Len(reports) = 2
  /\ reports[1].span = SpanOf(5)
  /\ reports[2].span = SpanOf(3)

(***************************************************************************)
(* Further properties of the tokenizer                                     *)
(***************************************************************************)
\* C11: the token list tokenize returns ends with an EOF token and holds
\* no other EOF, also when diagnostics were recorded; no EOF is pushed
\* before the last line is scanned; for the empty source the list is
\* exactly the EOF token and there is no diagnostic
EofTerminal ==
  /\ ~Done => CountType(tokens, "EOF") = 0
  /\ Done =>
       /\ tokens # <<>>
       /\ tokens[Len(tokens)].type = "EOF"
       /\ CountType(tokens, "EOF") = 1
  /\ (Done /\ source = <<>>) =>
       /\ Len(tokens) = 1
       /\ tokens[1].type = "EOF"
       /\ diagnostics = <<>>

\* tokenize returned for a source with diagnostics and an open indentation
\* level: the EOF stands after the trailing OUTDENT
EofTerminalWitness ==
  /\ Done
  /\ diagnostics # <<>>
  /\ indent > 0
  /\ Len(tokens) >= 2
  /\ tokens[Len(tokens) - 1].type = "OUTDENT"
  /\ tokens[Len(tokens)].type = "EOF"

(***************************************************************************)
(* Further properties of the parser                                        *)
(***************************************************************************)
\* span a contains span b
Contains(a, b) == PosLeq(a.start, b.start) /\ PosLeq(b.end, a.end)

\* C12: the span of a VariableDeclaration or EmptyVariableDeclaration
\* contains the spans of its identifier, of its type annotation when it has
\* one and of its initialiser when it has one; the span of a NewExpression
\* contains the spans of its object, of each generic argument and of each
\* parameter
SpanCoverage ==
  ppc = "parsed" =>
    /\ ast.type \in {"VARIABLE_DECL", "EMPTY_VARIABLE_DECL"} =>
         /\ Contains(ast.span, ast.identifier.span)
         /\ ast.variableType # NoNode => Contains(ast.span, ast.variableType.span)
    /\ ast.type = "VARIABLE_DECL" => Contains(ast.span, ast.value.span)
    /\ ast.type = "NEW_EXPR" =>
         /\ Contains(ast.span, ast.object.span)
         /\ \A i \in DOMAIN ast.genericArgs : Contains(ast.span, ast.genericArgs[i].span)
         /\ \A i \in DOMAIN ast.params : Contains(ast.span, ast.params[i].span)

\* variableDecl returned a declaration with a type annotation and an
\* initialiser, a call that stands on the line after the '='
SpanCoverageWitness ==
  /\ ppc = "parsed"
  /\ ast.type = "VARIABLE_DECL"
  /\ ast.variableType # NoNode
  /\ ast.value.type = "CALL_EXPR"
  /\ ast.span.end[1] > ast.span.start[1]

(***************************************************************************)
(* Properties of the indentation                                           *)
(***************************************************************************)
\* the number of tabs a line starts with
LeadingTabs(line) ==
  CHOOSE n \in 0..Len(line) :
    /\ \A k \in 1..n : line[k] = "\t"
    /\ n < Len(line) => line[n + 1] # "\t"

\* the level of the last code line before line i (0-based), 0 when none
PrevLevel(i) ==
  IF \E j \in 1..i : IsCodeLine(lines[j])
  THEN LeadingTabs(lines[CHOOSE j \in 1..i :
                           /\ IsCodeLine(lines[j])
                           /\ \A m \in (j + 1)..i : ~IsCodeLine(lines[m])])
  ELSE 0

\* C13: when the scan of a code line with curr leading tabs begins, prev
\* the level of the code line before it (0 when none), the tokenizer
\* pushes, before any token of that line, curr-prev INDENT tokens spanning
\* [line,0)..[line,curr-prev) if curr > prev, prev-curr OUTDENT tokens
\* spanning [line,0)..[line,curr) if curr < prev, and nothing if they are
\* equal
IndentEmission ==
  [][(pc = "for" /\ pc' = "while") =>
       LET curr == LeadingTabs(lines[lineIndex + 1])
           prev == PrevLevel(lineIndex)
           diff == IF curr > prev THEN curr - prev ELSE prev - curr
       IN /\ \A k \in DOMAIN tokens : tokens[k].span.start[1] < lineIndex
          /\ Len(tokens') = Len(tokens) + diff
          /\ SubSeq(tokens', 1, Len(tokens)) = tokens
          /\ \A k \in (Len(tokens) + 1)..Len(tokens') :
               /\ tokens'[k].type = (IF curr > prev THEN "INDENT" ELSE "OUTDENT")
               /\ tokens'[k].span =
                    Span(<<lineIndex, 0>>,
                         <<lineIndex, IF curr > prev THEN curr - prev ELSE curr>>)]_vars

\* the scan of a code line one level below the code line before it has
\* begun: the last token is the OUTDENT of that line
IndentEmissionWitness ==
  /\ pc = "while"
  /\ colIndex = indent
  /\ lineIndex > 0
  /\ PrevLevel(lineIndex) = indent + 1
  /\ tokens # <<>>
  /\ tokens[Len(tokens)].type = "OUTDENT"
  /\ tokens[Len(tokens)].span = Span(<<lineIndex, 0>>, <<lineIndex, indent>>)

(***************************************************************************)
(* Properties of the bare-word guard                                       *)
(***************************************************************************)
\* the word that starts at column col (0-based) of a line: the longest run
\* of letters, digits and '_' from there, <<>> when the character there
\* starts no word
WordAt(line, col) ==
  IF col >= Len(line) \/ line[col + 1] \notin (Letters \cup {"_"}) THEN <<>>
  ELSE SubSeq(line, col + 1,
              CHOOSE e \in (col + 1)..Len(line) :
                /\ \A k \in (col + 1)..e : line[k] \in WordChars
                /\ e < Len(line) => line[e + 1] \notin WordChars)

\* word starts with 'less', 'greater' or 'than' and goes on
StartsBare(word) ==
  \E b \in {<<"l", "e", "s", "s">>, <<"t", "h", "a", "n">>,
            <<"g", "r", "e", "a", "t", "e", "r">>} :
    Len(word) > Len(b) /\ SubSeq(word, 1, Len(b)) = b

\* C14: when the column loop stands on a whole word 'less', 'greater' or
\* 'than', the step records exactly one ERROR diagnostic of source
\* 'tokenizer' whose span is that word, pushes no token and no comment and
\* moves the column to the character right after the word; when it stands
\* on a longer word that starts with one of them, the step pushes that
\* word as one IDENTIFIER and records no diagnostic
BareWordGuard ==
  [][(pc = "while" /\ pc' = "while") =>
       LET word == WordAt(lines[lineIndex + 1], colIndex)
           span == Span(<<lineIndex, colIndex>>, <<lineIndex, colIndex + Len(word)>>)
       IN /\ Str(word) \in {"less", "greater", "than"} =>
               /\ Len(diagnostics') = Len(diagnostics) + 1
               /\ SubSeq(diagnostics', 1, Len(diagnostics)) = diagnostics
               /\ diagnostics'[Len(diagnostics')].level = "ERROR"
               /\ diagnostics'[Len(diagnostics')].source = "tokenizer"
               /\ diagnostics'[Len(diagnostics')].span = span
               /\ tokens' = tokens
               /\ comments' = comments
               /\ colIndex' = colIndex + Len(word)
          /\ StartsBare(word) =>
               /\ tokens' = Append(tokens, Token("IDENTIFIER", Str(word), span))
               /\ diagnostics' = diagnostics
               /\ colIndex' = colIndex + Len(word)]_vars

\* the column loop has just stepped over a 'less' that follows the token
\* of a lone 'is' and is followed by no 'than': the last diagnostic spans
\* that word and the last token is still the IS
BareWordGuardWitness ==
  /\ pc = "while"
  /\ colIndex >= 4
  /\ Str(WordAt(lines[lineIndex + 1], colIndex - 4)) = "less"
  /\ diagnostics # <<>>
  /\ diagnostics[Len(diagnostics)].span =
       Span(<<lineIndex, colIndex - 4>>, <<lineIndex, colIndex>>)
  /\ tokens # <<>>
  /\ tokens[Len(tokens)].type = "IS"
  /\ tokens[Len(tokens)].span.end[2] < colIndex - 4

\* the end of the head of the declaration in ast: of its type annotation
\* when it has one, else of its identifier
HeadEnd ==
  IF ast.variableType # NoNode THEN ast.variableType.span.end ELSE ast.identifier.span.end

\* the index of the token right after the head of the declaration
AfterHead == 1 + (CHOOSE k \in DOMAIN ptokens : ptokens[k].span.end = HeadEnd)

\* the index of the first token from k on that is not a NEWLINE
SkipNewlines(k) ==
  CHOOSE j \in k..Len(ptokens) :
    /\ ptokens[j].type # "NEWLINE"
    /\ \A m \in k..(j - 1) : ptokens[m].type = "NEWLINE"

\* C15: a declaration that variableDecl returns is a VariableDeclaration
\* exactly when the first token that is not a NEWLINE after the identifier
\* and the optional type annotation is '='; otherwise it is an
\* EmptyVariableDeclaration, the cursor stands right after the identifier
\* or the type, before any NEWLINE that follows, and the span of the node
\* ends at the identifier or at the last token of the type
VariableDeclForm ==
  (ppc = "parsed" /\ ast.type \in {"VARIABLE_DECL", "EMPTY_VARIABLE_DECL"}) =>
    /\ ast.type = "VARIABLE_DECL" <=> ptokens[SkipNewlines(AfterHead)].type = "EQUAL"
    /\ ast.type = "EMPTY_VARIABLE_DECL" =>
         /\ current = AfterHead
         /\ ast.span.end = HeadEnd

\* variableDecl returned an EmptyVariableDeclaration with a type
\* annotation, the next token the NEWLINE that ends the statement
VariableDeclFormWitness ==
  /\ ppc = "parsed"
  /\ ast.type = "EMPTY_VARIABLE_DECL"
  /\ ast.variableType # NoNode
  /\ ptokens[current].type = "NEWLINE"
  /\ ptokens[current - 1].span.end = ast.span.end

(***************************************************************************)
(* Properties of the pipeline of tokenizer and parser                      *)
(***************************************************************************)
\* the arguments written on the call line of the source, in source order
WrittenArgs ==
  CHOOSE args \in UNION {[1..n -> CallArgs] : n \in 0..MaxArgs} :
    \E lead \in CallLeads, sep \in CallSeps : source = CallSource(lead, args, sep)

\* C16: once the tokenizer has run on a statement line fn(a1, ..., an), no
\* tokenizer diagnostic stands in the way of the parse, and the parse
\* gives, with no parser diagnostic, one ExpressionStatement whose
\* expression is a CallExpression with the n arguments as params in
\* source order and the callee of lexeme 'fn' as object
CallParsing ==
  /\ pc = "done" => diagnostics = <<>>
  /\ ppc # "threw"
  /\ ppc = "parsed" =>
       /\ pdiagnostics = <<>>
       /\ Len(ast.body) = 1
       /\ ast.body[1].type = "EXPRESSION_STMT"
       /\ ast.body[1].expression.type = "CALL_EXPR"
       /\ ast.body[1].expression.object.lexeme = "fn"
       /\ Len(ast.body[1].expression.params) = Len(WrittenArgs)
       /\ \A i \in DOMAIN WrittenArgs :
            LET param == ast.body[1].expression.params[i]
            IN Str(WrittenArgs[i]) =
                 (IF param.type = "LITERAL" THEN param.value.lexeme ELSE param.lexeme)

(***************************************************************************)
(* Properties of a trailing line break                                     *)
(***************************************************************************)
\* the source does not end in a line break
NoFinalBreak == source = <<>> \/ source[Len(source)] \notin LineTerminators

\* the tokens of the source followed by one '\n'
WithBreak == tokenize(source \o <<"\n">>).tokens

\* the tokens pushed after the last line is scanned: the trailing
\* OUTDENTs and the EOF
Trailing(toks) ==
  {k \in DOMAIN toks :
     /\ toks[k].type \in {"OUTDENT", "EOF"}
     /\ \A j \in k..Len(toks) : toks[j].type \in {"OUTDENT", "EOF"}}

\* C17 as stated: for a source that does not end in a line break, the
\* tokens of the source and of the source followed by '\n' agree in kind,
\* lexeme and span on every token before EOF, the trailing OUTDENTs
\* included
TrailingNewlineSame ==
  (Done /\ NoFinalBreak) =>
    /\ Len(WithBreak) = Len(tokens)
    /\ \A k \in 1..(Len(tokens) - 1) : WithBreak[k] = tokens[k]

\* C17 as the code has it: the two token lists have the same length and
\* agree in kind and lexeme on every token; they agree in span on every
\* token before the trailing OUTDENTs, and each trailing OUTDENT of the
\* source followed by '\n' has the span of its counterpart moved one line
\* down, onto the empty last line
TrailingNewlineShifted ==
  (Done /\ NoFinalBreak) =>
    /\ Len(WithBreak) = Len(tokens)
    /\ \A k \in DOMAIN tokens :
         /\ WithBreak[k].type = tokens[k].type
         /\ WithBreak[k].lexeme = tokens[k].lexeme
         /\ k \notin Trailing(tokens) => WithBreak[k].span = tokens[k].span
         /\ (k \in Trailing(tokens) /\ tokens[k].type = "OUTDENT") =>
              WithBreak[k].span =
                Span(<<tokens[k].span.start[1] + 1, 0>>,
                     <<tokens[k].span.end[1] + 1, tokens[k].span.end[2]>>)

\* tokenize returned for a source whose last line is an indented code line
\* with no line break after it: a trailing OUTDENT stands before the EOF
TrailingNewlineShiftedWitness ==
  /\ Done
  /\ NoFinalBreak
  /\ indent > 0
  /\ Len(tokens) >= 3
  /\ tokens[Len(tokens) - 1].type = "OUTDENT"
  /\ tokens[Len(tokens) - 2].type = "NEWLINE"
  /\ WithBreak[Len(tokens) - 1].span.start[1] = tokens[Len(tokens) - 1].span.start[1] + 1

(***************************************************************************)
(* Properties of the lexemes                                               *)
(***************************************************************************)
\* the characters of the source that a span on one line covers
Covered(span) ==
  Str(SubSeq(lines[span.start[1] + 1], span.start[2] + 1, span.end[2]))

\* C18 as stated: every INDENT, OUTDENT, NEWLINE and EOF token has the
\* empty lexeme and every other token has as lexeme the characters of the
\* source that its span covers
VirtualLexemeEmpty ==
  \A k \in DOMAIN tokens :
    IF tokens[k].type \in Virtual
    THEN tokens[k].lexeme = ""
    ELSE tokens[k].lexeme = Covered(tokens[k].span)

\* C18 as the code has it: every OUTDENT and EOF token has the empty
\* lexeme, every INDENT token the lexeme of one tab, every NEWLINE token
\* the lexeme of one line feed, and every other token has as lexeme the
\* characters of the source that its span covers
VirtualLexeme ==
  \A k \in DOMAIN tokens :
    CASE tokens[k].type \in {"OUTDENT", "EOF"} -> tokens[k].lexeme = ""
      [] tokens[k].type = "INDENT" -> tokens[k].lexeme = "\t"
      [] tokens[k].type = "NEWLINE" -> tokens[k].lexeme = "\n"
      [] OTHER -> tokens[k].lexeme = Covered(tokens[k].span)

\* tokenize returned a list that holds the four virtual tokens and an
\* operator of several words
VirtualLexemeWitness ==
  /\ Done
  /\ \A t \in Virtual : CountType(tokens, t) > 0
  /\ \E k \in DOMAIN tokens :
       /\ tokens[k].type = "IS_GREATER_THAN"
       /\ tokens[k].span.end[2] - tokens[k].span.start[2] > 15

(***************************************************************************)
(* Properties of blank and comment lines                                   *)
(***************************************************************************)
\* C19: the scan of a line that is empty or whitespace only changes none
\* of tokens, comments, diagnostics and the indent; the scan of a line
\* whose first character after the whitespace is '#' appends exactly one
\* COMMENT, of that line, to comments and changes none of tokens,
\* diagnostics and the indent, whatever the leading tabs of the line; so
\* when the scan of a code line begins the indent is the level of the last
\* code line before it and the INDENT or OUTDENT tokens pushed are as many
\* as the two levels differ
BlankCommentFrame ==
  [][(pc = "for" /\ lineIndex < Len(lines)) =>
       LET line == lines[lineIndex + 1]
           curr == LeadingTabs(line)
       IN /\ IsBlankLine(line) =>
               /\ lineIndex' = lineIndex + 1
               /\ UNCHANGED <<tokens, comments, diagnostics, indent>>
          /\ IsCommentLine(line) =>
               /\ lineIndex' = lineIndex + 1
               /\ Len(comments') = Len(comments) + 1
               /\ SubSeq(comments', 1, Len(comments)) = comments
               /\ comments'[Len(comments')].type = "COMMENT"
               /\ comments'[Len(comments')].span.start[1] = lineIndex
               /\ UNCHANGED <<tokens, diagnostics, indent>>
          /\ IsCodeLine(line) =>
               /\ indent = PrevLevel(lineIndex)
               /\ indent' = curr
               /\ Len(tokens') - Len(tokens) =
                    (IF curr > indent THEN curr - indent ELSE indent - curr)]_vars

\* a code line, a blank line with a tab and a comment line whose leading
\* tabs differ from the level of the code line have been scanned
BlankCommentFrameWitness ==
  /\ pc = "for"
  /\ lineIndex = 3
  /\ IsCodeLine(lines[1])
  /\ IsBlankLine(lines[2]) /\ lines[2] # <<>>
  /\ IsCommentLine(lines[3])
  /\ LeadingTabs(lines[3]) # indent
  /\ indent = LeadingTabs(lines[1])
  /\ Len(comments) = 1

(***************************************************************************)
(* Properties of the counters of invalidControlStatement                   *)
(***************************************************************************)
\* the constructs that the counters count
ConstructKinds == {"FUNCTION_DECL", "SWITCH_STMT", "SWITCH_CASE"} \cup LoopKinds

\* the nodes of the path being visited that count for a counter
OpenConstructs(name) ==
  {i \in 1..Len(stack) : CounterOf(tree.kind[stack[i]]) = name}

\* the control statements entered so far that come after a construct with
\* the same parent
AfterConstruct ==
  {id \in 1..visited :
     /\ tree.kind[id] \in ControlKinds
     /\ \E j \in 1..(id - 1) :
          /\ tree.parent[j] = tree.parent[id]
          /\ tree.kind[j] \in ConstructKinds}

\* C20: each of the four counters is the number of constructs of its kind
\* on the path from the Program to the node being visited, so it is never
\* negative, has after the walker leaves a construct the value it had
\* before entering it, and is 0 when the walk is over; a control statement
\* that comes after a construct as a sibling has a report exactly when no
\* ancestor of it is a construct it needs, whatever the sibling is
CountersBalanced ==
  /\ \A name \in DOMAIN counters :
       /\ counters[name] = Cardinality(OpenConstructs(name))
       /\ counters[name] >= 0
       /\ wpc = "done" => counters[name] = 0
  /\ \A id \in AfterConstruct :
       Cardinality({k \in 1..Len(reports) :
                      reports[k] = report(ControlMessage(tree.kind[id]), SpanOf(id))})
         = (IF Misplaced(id) THEN 1 ELSE 0)

\* a walk is over in which a return inside a function got no report and
\* the return after that function got the one report there is
CountersBalancedWitness ==
  /\ wpc = "done"
  /\ tree.kind = <<"PROGRAM", "FUNCTION_DECL", "RETURN_STMT", "RETURN_STMT">>
  /\ tree.parent = <<0, 1, 2, 1>>
  /\ 4 \in AfterConstruct
  /\ reports = <<report(RETURN_ERROR, SpanOf(4))>>
  /\ \A name \in DOMAIN counters : counters[name] = 0

(***************************************************************************)
(* Properties of the progress of the scanner                               *)
(***************************************************************************)
\* the content tokens of line i, taken in the order of the token list,
\* start at strictly increasing columns and cover disjoint, non-empty
\* ranges of columns
DisjointOn(i) ==
  \A j, k \in ContentOn(i) :
    /\ tokens[j].span.start[2] < tokens[j].span.end[2]
    /\ j < k => /\ tokens[j].span.start[2] < tokens[k].span.start[2]
                /\ tokens[j].span.end[2] <= tokens[k].span.start[2]

\* C21: every iteration of the column loop of scanLine moves colIndex
\* forward by at least one column and not past the end of the line, so a
\* line takes at most as many iterations as it has characters; every run
\* of tokenize reaches its end; and the content tokens of one line start at
\* strictly increasing columns and have pairwise disjoint spans
ScannerProgress ==
  /\ [][(pc = "while" /\ colIndex < Len(lines[lineIndex + 1])) =>
          /\ colIndex' >= colIndex + 1
          /\ colIndex' <= Len(lines[lineIndex + 1])
          /\ lineIndex' = lineIndex
          /\ pc' = "while"]_vars
  /\ [][(pc \in {"for", "while"}) =>
          \/ lineIndex' = lineIndex + 1
          \/ lineIndex' = lineIndex /\ pc = "for" /\ pc' \in {"while", "done"}
          \/ lineIndex' = lineIndex /\ pc = "while" /\ colIndex' > colIndex]_vars
  /\ [](\A i \in 0..(Len(lines) - 1) : DisjointOn(i))
  /\ <>Done

\* tokenize has returned for a line on which a word, an unexpected
\* character and a number were scanned one after the other
ScannerProgressWitness ==
  /\ Done
  /\ \E i \in 0..(Len(lines) - 1) :
       /\ Cardinality(ContentOn(i)) >= 2
       /\ \E k \in ContentOn(i) :
            tokens[k].span.end[2] - tokens[k].span.start[2] >= 2
       /\ \E d \in DOMAIN diagnostics :
            /\ diagnostics[d].span.start[1] = i
            /\ \E j, k \in ContentOn(i) :
                 /\ tokens[j].span.end[2] <= diagnostics[d].span.start[2]
                 /\ diagnostics[d].span.end[2] <= tokens[k].span.start[2]

(***************************************************************************)
(* Properties of the nesting of the indentation                            *)
(***************************************************************************)
\* #INDENT - #OUTDENT among the first n tokens
Depth(n) ==
  CountType(SubSeq(tokens, 1, n), "INDENT") - CountType(SubSeq(tokens, 1, n), "OUTDENT")

\* the index of the NEWLINE token of line i (0-based), 0 when it has none
NewlineOf(i) ==
  IF TokensOn(i, {"NEWLINE"}) = {} THEN 0 ELSE CHOOSE k \in TokensOn(i, {"NEWLINE"}) : TRUE

\* C22: in every prefix of the token list there are at most as many
\* OUTDENT as INDENT tokens; right after the tokens of a code line, which
\* end with its NEWLINE, #INDENT - #OUTDENT is the number of leading tabs
\* of that line; and the running indent of the tokenizer is never negative
\* and, between two lines, is that difference
WellNested ==
  /\ \A n \in 0..Len(tokens) : Depth(n) >= 0
  /\ \A i \in 0..(Len(lines) - 1) :
       (IsCodeLine(lines[i + 1]) /\ NewlineOf(i) # 0) =>
          Depth(NewlineOf(i)) = LeadingTabs(lines[i + 1])
  /\ indent >= 0
  /\ pc = "for" => Depth(Len(tokens)) = indent

\* tokenize returned for a source that goes two levels in at once, comes
\* back one level, and is closed at its end
WellNestedWitness ==
  /\ Done
  /\ \E i \in 0..(Len(lines) - 2) :
       /\ IsCodeLine(lines[i + 1]) /\ IsCodeLine(lines[i + 2])
       /\ LeadingTabs(lines[i + 1]) = 2
       /\ LeadingTabs(lines[i + 2]) = 1
       /\ Cardinality(TokensOn(i, {"INDENT"})) = 2
       /\ Depth(NewlineOf(i)) = 2
       /\ Depth(NewlineOf(i + 1)) = 1
  /\ Depth(Len(tokens)) = 0

(***************************************************************************)
(* Properties of the end of word tokens                                    *)
(***************************************************************************)
\* the kinds of the tokens made of words
WordKinds ==
  {"IDENTIFIER", "IS_NOT", "IS_LESS_THAN", "IS_GREATER_THAN"}
    \cup {WORD_TOKENS[w] : w \in DOMAIN WORD_TOKENS}

\* C23: the character that follows an IDENTIFIER, a keyword or an operator
\* of several words on its line, if there is one, is no word character, so
\* no such token ends in the middle of a word
NoMidWordEnd ==
  \A k \in DOMAIN tokens :
    tokens[k].type \in WordKinds => CharAt(tokens[k].span.end) \notin WordChars

====
